---- MODULE Spec2Model ----
(***************************************************************************)
(* Price aggregation and caching subsystem of FundLens.                    *)
(*                                                                         *)
(* Three fetchers are modelled, each with its own module-level maps:       *)
(*   "pse"    src/services/pseService.ts     fetchPseStockPrice            *)
(*   "crypto" src/services/cryptoService.ts  fetchCryptoPrice (markets)    *)
(*   "coin"   src/unnamed/part_001           fetchCryptoPrice (two-step)   *)
(* and the dispatcher getPriceForAsset of src/services/priceService.ts.    *)
(*                                                                         *)
(* JavaScript runs one job at a time.  An action is one synchronous run of *)
(* code: from a call, or from the resumption of an await, up to the next   *)
(* suspension.  Network responses and timers are tasks; the resumption of  *)
(* an await on an already settled promise is a microtask, and every        *)
(* microtask runs before the next task.                                    *)
(***************************************************************************)
EXTENDS Integers, Sequences, FiniteSets, TLC

\* ---------------------------------------------------------------- bounds
MaxCalls == 2
MaxTicks == 2

\* -------------------------------------------------------------- strings
\* A string is a sequence of one-character strings.
LowerLetters == <<"a", "b", "c", "n", "o", "r", "s", "t", "u", "x">>
UpperLetters == <<"A", "B", "C", "N", "O", "R", "S", "T", "U", "X">>

IndexIn(seq, c) == CHOOSE i \in 1..Len(seq) : seq[i] = c

toUpperChar(c) ==
  IF \E i \in 1..Len(LowerLetters) : LowerLetters[i] = c
  THEN UpperLetters[IndexIn(LowerLetters, c)] ELSE c

toLowerChar(c) ==
  IF \E i \in 1..Len(UpperLetters) : UpperLetters[i] = c
  THEN LowerLetters[IndexIn(UpperLetters, c)] ELSE c

\* String.prototype.toUpperCase / toLowerCase
toUpperCase(s) == [i \in 1..Len(s) |-> toUpperChar(s[i])]
toLowerCase(s) == [i \in 1..Len(s) |-> toLowerChar(s[i])]

\* String.prototype.trim
RECURSIVE trim(_)
trim(s) ==
  IF s = <<>> THEN s
  ELSE IF Head(s) = " " THEN trim(Tail(s))
  ELSE IF s[Len(s)] = " " THEN trim(SubSeq(s, 1, Len(s) - 1))
  ELSE s

\* String.prototype.replace(/,/g, "")
RECURSIVE replaceCommas(_)
replaceCommas(s) ==
  IF s = <<>> THEN s
  ELSE IF Head(s) = "," THEN replaceCommas(Tail(s))
  ELSE <<Head(s)>> \o replaceCommas(Tail(s))

\* --------------------------------------------------------------- values
\* Every JavaScript value is a record with a field t.
Null      == [t |-> "null"]
Undefined == [t |-> "undefined"]
NaN       == [t |-> "NaN"]
Num(n)    == [t |-> "number", v |-> n]
Str(s)    == [t |-> "string", s |-> s]

\* Truthiness of a value (ToBoolean).
Truthy(v) ==
  CASE v.t = "null"      -> FALSE
    [] v.t = "undefined" -> FALSE
    [] v.t = "NaN"       -> FALSE
    [] v.t = "number"    -> v.v # 0
    [] v.t = "string"    -> v.s # <<>>
    [] OTHER             -> TRUE

\* Plain objects ({}) used as maps: the own properties are a function.
Has(m, k)    == k \in DOMAIN m
Put(m, k, v) == [x \in (DOMAIN m) \cup {k} |-> IF x = k THEN v ELSE m[x]]
Delete(m, k) == [x \in (DOMAIN m) \ {k} |-> m[x]]
EmptyMap     == [x \in {} |-> Null]

\* What a map created by {} inherits from Object.prototype, cut down to the
\* one member whose name a ticker of the model can spell.  (Every member
\* name has a lower-case letter, so only a lower-cased key can meet one.)
ObjectPrototype ==
  [k \in { <<"c", "o", "n", "s", "t", "r", "u", "c", "t", "o", "r">> } |->
     [t |-> "function", name |-> "Object"]]

\* obj[key]: the own property, else the inherited one, else undefined.
Get(m, k) ==
  IF Has(m, k) THEN m[k]
  ELSE IF Has(ObjectPrototype, k) THEN ObjectPrototype[k]
  ELSE Undefined

\* A promise held in a map: the index of the fetchAction in `fetches`.
Promise(f) == [t |-> "promise", f |-> f]

\* ----------------------------------------------------------------- time
\* 60 * 1000 in all three fetchers.
CACHE_TTL_MS == 60 * 1000

\* Date.prototype.toISOString and new Date(iso).getTime(): the text form
\* keeps minutes, seconds and milliseconds apart.
toISOString(ms) ==
  [min |-> ms \div 60000, sec |-> (ms % 60000) \div 1000, msec |-> ms % 1000]
getTime(iso) == iso.min * 60000 + iso.sec * 1000 + iso.msec

\* The instants the clock is read at: 0, TTL - 1, TTL, 2 TTL - 1, 2 TTL, ...
\* so that ages of TTL - 1, TTL and 1 millisecond all occur.
NextInstant(t) == IF t % CACHE_TTL_MS = 0 THEN t + CACHE_TTL_MS - 1 ELSE t + 1
TickIndex(t) == 2 * (t \div CACHE_TTL_MS) + (IF t % CACHE_TTL_MS = 0 THEN 0 ELSE 1)

\* -------------------------------------------------------------- numbers
Digits == <<"0", "1", "2", "3", "4", "5", "6", "7", "8", "9">>
IsDigit(c) == \E i \in 1..10 : Digits[i] = c
DigitVal(c) == IndexIn(Digits, c) - 1

\* The longest prefix of s made of digits.
RECURSIVE digitPrefix(_)
digitPrefix(s) ==
  IF s = <<>> \/ ~IsDigit(Head(s)) THEN <<>>
  ELSE <<Head(s)>> \o digitPrefix(Tail(s))

RECURSIVE digitsValue(_, _)
digitsValue(s, acc) ==
  IF s = <<>> THEN acc ELSE digitsValue(Tail(s), acc * 10 + DigitVal(Head(s)))

\* parseFloat on unsigned decimal text: leading blanks are skipped, the
\* longest prefix "digits [. digits]" is read and the rest is ignored; no
\* digit at all gives NaN.  Numbers are kept in hundredths (prices are
\* quoted to two decimals).
parseFloat(str) ==
  LET s    == trim(str)
      ip   == digitPrefix(s)
      rest == SubSeq(s, Len(ip) + 1, Len(s))
      fp   == IF rest # <<>> /\ Head(rest) = "." THEN digitPrefix(Tail(rest)) ELSE <<>>
      f2   == SubSeq(fp \o <<"0", "0">>, 1, 2)
  IN IF ip = <<>> /\ fp = <<>> THEN NaN
     ELSE Num(digitsValue(ip, 0) * 100 + digitsValue(f2, 0))

\* --------------------------------------------------------------- inputs
\* Asset.type of src/types.ts.
AssetTypes == {"Stock", "Crypto", "Cash", "Other"}

\* Ticker spellings the callers pass.
Symbols == { <<"A", "C">>, <<" ", "a", "c">>, <<"b", "t", "c">>, <<"B", "t", "c">> }

\* The assets handed to getPriceForAsset.
Assets ==
  { [type |-> "Stock",  ticker |-> <<" ", "a", "c">>],
    [type |-> "Crypto", ticker |-> <<"A", "C">>],
    [type |-> "Crypto", ticker |-> <<" ", "a", "c">>],
    [type |-> "Crypto", ticker |-> <<"b", "t", "c">>],
    [type |-> "Crypto", ticker |-> <<"C", "O", "N", "S", "T", "R", "U", "C", "T", "O", "R">>],
    [type |-> "Cash",   ticker |-> <<"A", "C">>],
    [type |-> "Other",  ticker |-> <<"b", "t", "c">> ] }

\* ---------------------------------------------------------------- state
VARIABLES
  now,               \* Date.now(), in milliseconds
  PRICE_CACHE,       \* per module: cache key -> PriceResponse
  PENDING_REQUESTS,  \* per module: ticker -> promise (an index of fetches)
  COMPANY_ID_CACHE,  \* pseService.ts: ticker -> cmpyId
  ID_MAP_CACHE,      \* part_001: ticker -> coin id
  fetches,           \* the fetchAction promises created so far
  calls,             \* the calls made so far and what each received
  prices,            \* App.tsx: the state `prices`, key -> PriceResponse
  assetIcons,        \* App.tsx: data.assetIcons, ticker -> logo url
  refresh,           \* App.tsx: isRefreshing and the running refreshPrices
  adding             \* Portfolio: the handleAddAsset calls awaiting their price

vars == <<now, PRICE_CACHE, PENDING_REQUESTS, COMPANY_ID_CACHE, ID_MAP_CACHE,
          fetches, calls, prices, assetIcons, refresh, adding>>

\* The state of the component App.
appVars == <<prices, assetIcons, refresh, adding>>

\* No refreshPrices is running: isRefreshing is false.
Idle == [active |-> FALSE, list |-> <<>>, pos |-> 1, slots |-> <<>>, icons |-> EmptyMap]

Providers == {"pse", "crypto", "coin"}

\* Faulty variant: one set of maps shared by all fetchers.
MapsShared(p) == "pse"

\* Each service module declares its own PRICE_CACHE and PENDING_REQUESTS;
\* a fetcher reaches the maps of the module it is defined in.
Maps(p) == p

\* The seed of ID_MAP_CACHE, cut down to the tickers of the model.
ID_MAP_SEED == [x \in { <<"B", "T", "C">> } |-> Str(<<"bitcoin">>)]

Init ==
  /\ now = 0
  /\ PRICE_CACHE = [p \in Providers |-> EmptyMap]
  /\ PENDING_REQUESTS = [p \in Providers |-> EmptyMap]
  /\ COMPANY_ID_CACHE = EmptyMap
  /\ ID_MAP_CACHE = ID_MAP_SEED
  /\ fetches = <<>>
  /\ calls = <<>>
  /\ prices = EmptyMap
  /\ assetIcons = EmptyMap
  /\ refresh = Idle
  /\ adding = <<>>

\* ------------------------------------------------- the synchronous prefix
\* Faulty variant: the case conversion is missing.
TickerAsTyped(p, symbol) == trim(symbol)

\* const ticker = symbol.toUpperCase().trim()   (pseService.ts, part_001)
\* const ticker = symbol.toLowerCase().trim()   (cryptoService.ts)
Ticker(p, symbol) ==
  IF p = "crypto" THEN trim(toLowerCase(symbol)) ELSE trim(toUpperCase(symbol))

\* The key of PRICE_CACHE: ticker.toUpperCase() in cryptoService.ts, the
\* ticker itself in the two others.
\* (Faulty variant: the key is the symbol as the equity fetcher's URL
\* would carry it, with a leading blank.)
CacheKeyPadded(p, ticker) == <<" ">> \o toUpperCase(ticker)

CacheKey(p, ticker) == IF p = "crypto" THEN toUpperCase(ticker) ELSE ticker

\* Faulty variants of the freshness test: the comparison turned round, and
\* an entry of age exactly TTL taken as fresh.
IsFreshInverted(age) == age > CACHE_TTL_MS
IsFreshInclusive(age) == age <= CACHE_TTL_MS

\* if (age < CACHE_TTL_MS)
IsFresh(age) == age < CACHE_TTL_MS

\* Faulty variant: the cache is not consulted.
CacheHitNever(p, ticker) == FALSE

\* const cached = PRICE_CACHE[key]; if (cached) { age = Date.now() - ... }
CacheHit(p, ticker) ==
  LET cache == PRICE_CACHE[Maps(p)]
      key   == CacheKey(p, ticker)
  IN Truthy(Get(cache, key)) /\ IsFresh(now - getTime(cache[key].retrieved_at))

\* Faulty variant: the in-flight check is missing.
CollapsesNever(pending, ticker) == FALSE

\* if (PENDING_REQUESTS[ticker]) return PENDING_REQUESTS[ticker]
Collapses(pending, ticker) == Truthy(Get(pending, ticker))

\* Faulty variant: the promise is not recorded.
RegisterNothing(pending, ticker, f) == pending

\* Faulty variant: the promise is recorded under the lower-cased ticker.
RegisterLowerCased(pending, ticker, f) == Put(pending, toLowerCase(ticker), Promise(f))

\* PENDING_REQUESTS[ticker] = fetchAction
Register(pending, ticker, f) == Put(pending, ticker, Promise(f))

\* Faulty variants: the delete sits at the end of the try block instead of
\* a finally block (skipped when the catch runs); the whole map is cleared.
CleanupUnlessThrown(pending, ticker, exit) ==
  IF exit = "exception" THEN pending ELSE Delete(pending, ticker)
CleanupAll(pending, ticker, exit) == EmptyMap
\* Faulty variant: only a fetch that produced a record clears its entry, so
\* a failed fetch keeps answering for its key.
CleanupOnRecord(pending, ticker, exit) ==
  IF exit = "record" THEN Delete(pending, ticker) ELSE pending

\* Faulty variant: a fetch that produced a record leaves its entry behind.
CleanupOnFailure(pending, ticker, exit) ==
  IF exit = "record" THEN pending ELSE Delete(pending, ticker)

\* finally { delete PENDING_REQUESTS[ticker] }: runs on every exit of the
\* producer: "record", "absent" (return null) or "exception" (catch).
Cleanup(pending, ticker, exit) == Delete(pending, ticker)

\* The outcome of a promise that rejects.
Rejected == [t |-> "rejected"]

\* Faulty variant: the catch block rethrows.
CaughtRethrown == Rejected

\* catch (err) { ...; return null }: the value a caught exception leaves.
Caught == Null

\* A fetchAction promise.  pc is the await it is suspended at; rateLimited
\* tells that the last response it received had the status 429, which is
\* what its log line tells apart; emptyValue tells that the document it
\* received had the price label and no text next to it.
NewFetch(p, ticker, pc, val, nSearch, nPrice) ==
  [provider |-> p, ticker |-> ticker, pc |-> pc, val |-> val,
   exit |-> "none", result |-> Undefined,
   nSearch |-> nSearch, nPrice |-> nPrice, rateLimited |-> FALSE,
   emptyValue |-> FALSE]

Settled(f) == fetches[f].pc = "settled"

\* The producer returns: record `exit`, run the finally block, settle.
SettleAt(f, exit, result, limited) ==
  LET r == fetches[f] IN
  /\ fetches' = [fetches EXCEPT ![f] =
       [r EXCEPT !.pc = "settled", !.val = Null, !.exit = exit, !.result = result,
                 !.rateLimited = limited]]
  /\ PENDING_REQUESTS' = [PENDING_REQUESTS EXCEPT ![Maps(r.provider)] =
       Cleanup(@, r.ticker, exit)]

Settle(f, exit, result) == SettleAt(f, exit, result, fetches[f].rateLimited)

\* A call and what it received.  kind: "hit" (fresh cache entry), "joined"
\* (an in-flight promise), "inherited" (PENDING_REQUESTS[ticker] was no
\* promise), "started" (a new fetchAction), "unrouted".
Call(type, p, symbol, kind, f, done, result) ==
  [type |-> type, provider |-> p, symbol |-> symbol, kind |-> kind,
   fetch |-> f, done |-> done, result |-> result]

\* Steps 1 and 2 of a fetcher and the registration of a new fetchAction;
\* `start` is the producer as its first await leaves it.
Invoke(type, p, symbol, start) ==
  LET ticker  == Ticker(p, symbol)
      cache   == PRICE_CACHE[Maps(p)]
      pending == PENDING_REQUESTS[Maps(p)]
      id      == Len(fetches) + 1
  IN
  /\ Len(calls) < MaxCalls
  /\ IF CacheHit(p, ticker)
     THEN /\ calls' = Append(calls, Call(type, p, symbol, "hit", 0, TRUE,
                                         cache[CacheKey(p, ticker)]))
          /\ UNCHANGED <<fetches, PENDING_REQUESTS>>
     ELSE IF Collapses(pending, ticker)
     THEN /\ calls' = Append(calls,
               LET held == Get(pending, ticker) IN
               IF held.t = "promise"
               THEN Call(type, p, symbol, "joined", held.f, FALSE, Undefined)
               ELSE Call(type, p, symbol, "inherited", 0, TRUE, held))
          /\ UNCHANGED <<fetches, PENDING_REQUESTS>>
     ELSE /\ fetches' = Append(fetches, start)
          /\ PENDING_REQUESTS' = [PENDING_REQUESTS EXCEPT ![Maps(p)] =
               Register(@, ticker, id)]
          /\ calls' = Append(calls, Call(type, p, symbol, "started", id, FALSE,
                                         Undefined))
  /\ UNCHANGED <<now, PRICE_CACHE, COMPANY_ID_CACHE, ID_MAP_CACHE>>

\* ------------------------------------------------------------ the network
NetworkError == [t |-> "error"]
Response(status, body) == [t |-> "response", status |-> status, body |-> body]
Malformed == [t |-> "malformed"]
Arr(items) == [t |-> "array", items |-> items]
Statuses == {429, 500}

\* res.status === 429
RateLimited(res) == res.t = "response" /\ res.status = 429

\* Faulty variant: a 429 response is read like a success.
okOrLimited(res) == res.status \in 200..299 \/ res.status = 429

\* response.ok
ok(res) == res.status \in 200..299

\* A response the code cannot read a body from: fetch rejects, the status
\* is not a success, or the body does not parse.
Unreadable(res) ==
  \/ res.t = "error"
  \/ ~ok(res)
  \/ res.body.t = "malformed"

\* The resumption of an await on a settled promise is a microtask; a
\* delivery to a waiting caller is one too.
MicrotaskPending ==
  \/ \E f \in 1..Len(fetches) : fetches[f].pc \in {"resolved", "extracted"}
  \/ \E i \in 1..Len(calls) :
       ~calls[i].done /\ calls[i].fetch # 0 /\ Settled(calls[i].fetch)

\* ------------------------------------------------- src/services/pseService.ts
CompanyItem(symbol, cmpyId) == [t |-> "object", symbol |-> symbol, cmpyId |-> cmpyId]
CompanyIdOf(ticker) == Str(<<"#">> \o ticker)

\* Bodies of the symbol search for `ticker`.
SearchBodies(ticker) ==
  LET exact   == CompanyItem(Str(<<" ">> \o toLowerCase(ticker)), CompanyIdOf(ticker))
      partial == CompanyItem(Str(ticker \o <<"X">>), Str(<<"#", "X">>))
      noId    == CompanyItem(Str(ticker), Undefined)
      noSym   == CompanyItem(Undefined, CompanyIdOf(ticker))
  IN { Malformed, [t |-> "object"], Arr(<<>>), Arr(<<exact>>), Arr(<<partial>>),
       Arr(<<partial, exact>>), Arr(<<noId, exact>>), Arr(<<noSym, exact>>) }

SearchResponses(ticker) ==
  {NetworkError} \cup {Response(st, Arr(<<>>)) : st \in Statuses}
    \cup {Response(200, b) : b \in SearchBodies(ticker)}

\* data.find(item => item.symbol.toUpperCase().trim() === ticker)
RECURSIVE findCompany(_, _)
findCompany(items, ticker) ==
  IF items = <<>> THEN [threw |-> FALSE, match |-> Undefined]
  ELSE LET item == Head(items) IN
       IF item.symbol.t # "string" THEN [threw |-> TRUE, match |-> Undefined]
       ELSE IF trim(toUpperCase(item.symbol.s)) = ticker
            THEN [threw |-> FALSE, match |-> item]
            ELSE findCompany(Tail(items), ticker)

\* Faulty variant: a search that gives no identifier stores null for the
\* ticker.
getCompanyIdNegative(symbol, res) ==
  LET ticker == trim(toUpperCase(symbol))
      failed == [value |-> Null, threw |-> FALSE, store |-> TRUE]
  IN IF Unreadable(res) THEN failed
     ELSE IF res.body.t # "array" THEN failed
     ELSE LET r == findCompany(res.body.items, ticker) IN
          IF ~r.threw /\ r.match.t = "object" /\ Truthy(r.match.cmpyId)
          THEN [value |-> r.match.cmpyId, threw |-> FALSE, store |-> TRUE]
          ELSE failed

\* getCompanyId from the response of its search on: the value it returns,
\* whether it threw inside its try, and the entry it stores.
getCompanyId(symbol, res) ==
  LET ticker == trim(toUpperCase(symbol))
      failed == [value |-> Caught, threw |-> TRUE, store |-> FALSE]
  IN IF Unreadable(res) THEN failed
     ELSE IF res.body.t # "array" THEN failed
     ELSE LET r == findCompany(res.body.items, ticker) IN
          IF r.threw THEN failed
          ELSE IF r.match.t = "object" /\ Truthy(r.match.cmpyId)
               THEN [value |-> r.match.cmpyId, threw |-> FALSE, store |-> TRUE]
               ELSE [value |-> Null, threw |-> FALSE, store |-> FALSE]

\* Faulty variant: the stored identifier is not consulted.
PseStartSearching(ticker) == NewFetch("pse", ticker, "search", Null, 1, 0)

\* The producer of fetchPseStockPrice up to its first await: getCompanyId
\* returns the stored id, or sends the search.
PseStart(ticker) ==
  LET id == Get(COMPANY_ID_CACHE, trim(toUpperCase(ticker))) IN
  IF Truthy(id) THEN NewFetch("pse", ticker, "resolved", id, 0, 0)
  ELSE NewFetch("pse", ticker, "search", Null, 1, 0)

fetchPseStockPrice(type, symbol) ==
  Invoke(type, "pse", symbol, PseStart(Ticker("pse", symbol)))

\* The search responds: getCompanyId runs to its return.
SearchResponds(f, res) ==
  LET r   == fetches[f]
      got == getCompanyId(r.ticker, res)
  IN
  /\ r.provider = "pse" /\ r.pc = "search"
  /\ ~MicrotaskPending
  /\ fetches' = [fetches EXCEPT ![f] =
       [r EXCEPT !.pc = "resolved", !.val = got.value, !.rateLimited = RateLimited(res)]]
  /\ COMPANY_ID_CACHE' =
       IF got.store THEN Put(COMPANY_ID_CACHE, trim(toUpperCase(r.ticker)), got.value)
       ELSE COMPANY_ID_CACHE
  /\ UNCHANGED <<now, PRICE_CACHE, PENDING_REQUESTS, ID_MAP_CACHE, calls>>

\* PriceResponse of src/types.ts, with retrieved_at = new Date().toISOString().
PriceResponse(platform, asset, price, source) ==
  [t |-> "object", platform |-> platform, asset |-> asset, price_php |-> price,
   currency |-> "PHP", source |-> source, retrieved_at |-> toISOString(now)]

IsPriceResponse(v) == v.t = "object" /\ "price_php" \in DOMAIN v

\* Faulty variant: an entry already there is kept.
CacheWriteOnce(p, ticker, result) ==
  PRICE_CACHE' = [PRICE_CACHE EXCEPT ![Maps(p)] =
    IF Has(@, CacheKey(p, ticker)) THEN @ ELSE Put(@, CacheKey(p, ticker), result)]

\* PRICE_CACHE[key] = result
CacheWrite(p, ticker, result) ==
  PRICE_CACHE' = [PRICE_CACHE EXCEPT ![Maps(p)] = Put(@, CacheKey(p, ticker), result)]

\* Faulty variant: the producer calls getLastTradedPrice whatever
\* getCompanyId returned.
AfterGetCompanyIdUnchecked(f) ==
  LET r == fetches[f] IN
  /\ r.provider = "pse" /\ r.pc = "resolved"
  /\ fetches' = [fetches EXCEPT ![f] =
       [r EXCEPT !.pc = "document", !.nPrice = r.nPrice + 1]]
  /\ UNCHANGED <<now, PRICE_CACHE, PENDING_REQUESTS, COMPANY_ID_CACHE, ID_MAP_CACHE,
                 calls, prices, assetIcons, refresh, adding>>

\* The producer resumes from `await getCompanyId(ticker)`: no id returns
\* null; an id calls getLastTradedPrice, which sends the document request.
AfterGetCompanyId(f) ==
  LET r == fetches[f] IN
  /\ r.provider = "pse" /\ r.pc = "resolved"
  /\ IF r.val.t = "rejected"
     THEN Settle(f, "exception", Caught)
     ELSE IF ~Truthy(r.val)
     THEN Settle(f, "absent", Null)
     ELSE /\ fetches' = [fetches EXCEPT ![f] =
               [r EXCEPT !.pc = "document", !.nPrice = r.nPrice + 1]]
          /\ UNCHANGED PENDING_REQUESTS
  /\ UNCHANGED <<now, PRICE_CACHE, COMPANY_ID_CACHE, ID_MAP_CACHE, calls>>

\* The rendered page as its <th> cells with their next element sibling.
Html(rows) == [t |-> "html", rows |-> rows]
Row(th, td) == [th |-> th, td |-> td]
LastTradedPriceLabel == <<"Last Traded Price">>

PriceTexts ==
  { <<" ", "1", ",", "2", "3", "4", ".", "5", "0", " ">>, <<"N/A">>, <<" ">> }

DocumentBodies ==
  { Html(<<>>), Html(<<Row(<<"Open">>, Str(<<"9", "8", ".", "7">>))>>),
    Html(<<Row(<<" ", "Last Traded Price", " ">>, Undefined)>>),
    Html(<<Row(<<"Last Traded Price">>, Undefined),
           Row(<<"Last Traded Price">>, Str(<<" ">>))>>) }
  \cup { Html(<<Row(<<"Open">>, Str(<<"1">>)),
                Row(<<" ", "Last Traded Price", " ">>, Str(txt))>>) : txt \in PriceTexts }

DocumentResponses ==
  {NetworkError} \cup {Response(st, Html(<<>>)) : st \in Statuses}
    \cup {Response(200, b) : b \in DocumentBodies}

RECURSIVE scanRowsZero(_)
\* Faulty variant: an empty value next to the label reads as "0".
scanRowsZero(rows) ==
  IF rows = <<>> THEN Null
  ELSE LET row == Head(rows) IN
       IF trim(row.th) = LastTradedPriceLabel /\ row.td.t = "string"
       THEN (IF trim(row.td.s) # <<>> THEN Str(trim(row.td.s)) ELSE Str(<<"0">>))
       ELSE scanRowsZero(Tail(rows))

\* for (const th of ths) { if (th.textContent?.trim() === "Last Traded Price") ... }
RECURSIVE scanRows(_)
scanRows(rows) ==
  IF rows = <<>> THEN Null
  ELSE LET row == Head(rows) IN
       IF trim(row.th) = LastTradedPriceLabel /\ row.td.t = "string"
       THEN (IF trim(row.td.s) # <<>> THEN Str(trim(row.td.s)) ELSE Null)
       ELSE scanRows(Tail(rows))

\* The document has a cell with the price label, and no such cell is
\* followed by an element with text in it.
LabelWithoutValue(res) ==
  /\ ~Unreadable(res)
  /\ \E n \in 1..Len(res.body.rows) : trim(res.body.rows[n].th) = LastTradedPriceLabel
  /\ \A n \in 1..Len(res.body.rows) :
       trim(res.body.rows[n].th) = LastTradedPriceLabel =>
         \/ res.body.rows[n].td.t # "string"
         \/ trim(res.body.rows[n].td.s) = <<>>

\* getLastTradedPrice from the response of its request on.
getLastTradedPrice(res) ==
  IF Unreadable(res) THEN [value |-> Caught, threw |-> TRUE]
  ELSE [value |-> scanRows(res.body.rows), threw |-> FALSE]

\* The document responds: getLastTradedPrice runs to its return.
DocumentResponds(f, res) ==
  LET r   == fetches[f]
      got == getLastTradedPrice(res)
  IN
  /\ r.provider = "pse" /\ r.pc = "document"
  /\ ~MicrotaskPending
  /\ fetches' = [fetches EXCEPT ![f] =
       [r EXCEPT !.pc = "extracted", !.val = got.value, !.rateLimited = RateLimited(res),
                 !.emptyValue = LabelWithoutValue(res)]]
  /\ UNCHANGED <<now, PRICE_CACHE, PENDING_REQUESTS, COMPANY_ID_CACHE, ID_MAP_CACHE, calls>>

\* The producer resumes from `await getLastTradedPrice(companyId)`.
AfterGetLastTradedPrice(f) ==
  LET r == fetches[f] IN
  /\ r.provider = "pse" /\ r.pc = "extracted"
  /\ IF r.val.t = "rejected"
     THEN Settle(f, "exception", Caught) /\ UNCHANGED PRICE_CACHE
     ELSE IF ~Truthy(r.val)
     THEN Settle(f, "absent", Null) /\ UNCHANGED PRICE_CACHE
     ELSE LET price  == parseFloat(replaceCommas(r.val.s))
              result == PriceResponse("COL Financial", r.ticker, price, "PSE Edge")
          IN /\ CacheWrite("pse", r.ticker, result)
             /\ Settle(f, "record", result)
  /\ UNCHANGED <<now, COMPANY_ID_CACHE, ID_MAP_CACHE, calls>>

\* ---------------------------------------------- src/services/cryptoService.ts
MarketItem(symbol, price) == [t |-> "object", symbol |-> symbol, current_price |-> price]

\* Bodies of the markets query for `ticker`.
MarketsBodies(ticker) ==
  LET match(price) == MarketItem(Str(toUpperCase(ticker)), price)
      other        == MarketItem(Str(<<"x">>), Num(700))
      noSym        == MarketItem(Undefined, Num(700))
  IN { Malformed, [t |-> "object"], Arr(<<>>), Arr(<<match(Num(500025))>>),
       Arr(<<other>>), Arr(<<other, match(Num(500025))>>),
       Arr(<<match(Null)>>), Arr(<<match(Undefined)>>), Arr(<<noSym, match(Num(500025))>>) }

MarketsResponses(ticker) ==
  {NetworkError} \cup {Response(st, Arr(<<>>)) : st \in Statuses}
    \cup {Response(200, b) : b \in MarketsBodies(ticker)}

\* Faulty variant: no element is ever taken as the match.
findMarketNone(items, ticker) == [threw |-> FALSE, match |-> Undefined]

\* data.find(c => c.symbol.toLowerCase() === ticker)
RECURSIVE findMarket(_, _)
findMarket(items, ticker) ==
  IF items = <<>> THEN [threw |-> FALSE, match |-> Undefined]
  ELSE LET item == Head(items) IN
       IF item.symbol.t # "string" THEN [threw |-> TRUE, match |-> Undefined]
       ELSE IF toLowerCase(item.symbol.s) = ticker
            THEN [threw |-> FALSE, match |-> item]
            ELSE findMarket(Tail(items), ticker)

\* The body of the producer of fetchCryptoPrice after `await fetch(url)`:
\* how it exits and the value it returns.
MarketsOutcome(ticker, res) ==
  LET thrown == [exit |-> "exception", value |-> Caught]
      absent == [exit |-> "absent", value |-> Null]
  IN IF res.t = "error" THEN thrown
     ELSE IF ~ok(res) THEN absent
     ELSE IF res.body.t = "malformed" THEN thrown
     ELSE IF res.body.t # "array" \/ res.body.items = <<>> THEN absent
     ELSE LET r == findMarket(res.body.items, ticker) IN
          IF r.threw THEN thrown
          ELSE LET marketData == IF Truthy(r.match) THEN r.match ELSE res.body.items[1]
                   price      == marketData.current_price
               IN IF price.t = "undefined" \/ price.t = "null" THEN absent
                  ELSE [exit |-> "record",
                        value |-> PriceResponse("Crypto Exchange", toUpperCase(ticker),
                                                price, "CoinGecko Markets")]

fetchCryptoPrice(type, symbol) ==
  Invoke(type, "crypto", symbol,
         NewFetch("crypto", Ticker("crypto", symbol), "markets", Null, 0, 1))

\* The markets query responds: the producer runs to its end.
MarketsResponds(f, res) ==
  LET r   == fetches[f]
      out == MarketsOutcome(r.ticker, res)
  IN
  /\ r.provider = "crypto" /\ r.pc = "markets"
  /\ ~MicrotaskPending
  /\ IF out.exit = "record"
     THEN CacheWrite("crypto", r.ticker, out.value)
     ELSE UNCHANGED PRICE_CACHE
  /\ SettleAt(f, out.exit, out.value, RateLimited(res))
  /\ UNCHANGED <<now, COMPANY_ID_CACHE, ID_MAP_CACHE, calls>>

\* ------------------------------------------------------- src/unnamed/part_001
CoinItem(symbol, id) == [t |-> "object", symbol |-> symbol, id |-> id]
CoinIdOf(ticker) == Str(<<"coin">> \o ticker)

\* Bodies of the coin search for `ticker`: an object with a `coins` list.
CoinSearchBodies(ticker) ==
  LET exact   == CoinItem(Str(ticker), CoinIdOf(ticker))
      lower   == CoinItem(Str(toLowerCase(ticker)), CoinIdOf(ticker))
      partial == CoinItem(Str(ticker \o <<"X">>), Str(<<"coin", "X">>))
  IN { Malformed, [t |-> "object", coins |-> Undefined] }
       \cup { [t |-> "object", coins |-> Arr(items)] :
                items \in { <<>>, <<exact>>, <<lower>>, <<partial, exact>> } }

CoinSearchResponses(ticker) ==
  {NetworkError} \cup {Response(st, Malformed) : st \in Statuses}
    \cup {Response(200, b) : b \in CoinSearchBodies(ticker)}

\* data.coins.find(c => c.symbol === ticker)
RECURSIVE findCoin(_, _)
findCoin(items, ticker) ==
  IF items = <<>> THEN Undefined
  ELSE IF Head(items).symbol = Str(ticker) THEN Head(items)
  ELSE findCoin(Tail(items), ticker)

\* getCoinId from the response of its search on.
getCoinId(symbol, res) ==
  LET ticker == trim(toUpperCase(symbol))
      thrown == [value |-> Caught, threw |-> TRUE, store |-> FALSE]
      absent == [value |-> Null, threw |-> FALSE, store |-> FALSE]
  IN IF res.t = "error" THEN thrown
     ELSE IF ~ok(res) THEN absent
     ELSE IF res.body.t = "malformed" THEN thrown
     ELSE IF res.body.coins.t # "array" THEN thrown
     ELSE LET match == findCoin(res.body.coins.items, ticker) IN
          IF Truthy(match) THEN [value |-> match.id, threw |-> FALSE, store |-> TRUE]
          ELSE absent

CoinStart(ticker) ==
  LET id == Get(ID_MAP_CACHE, trim(toUpperCase(ticker))) IN
  IF Truthy(id) THEN NewFetch("coin", ticker, "resolved", id, 0, 0)
  ELSE NewFetch("coin", ticker, "search", Null, 1, 0)

\* fetchCryptoPrice of part_001 (coin id, then simple price).
fetchCryptoPriceById(symbol) ==
  Invoke("direct", "coin", symbol, CoinStart(Ticker("coin", symbol)))

CoinSearchResponds(f, res) ==
  LET r   == fetches[f]
      got == getCoinId(r.ticker, res)
  IN
  /\ r.provider = "coin" /\ r.pc = "search"
  /\ ~MicrotaskPending
  /\ fetches' = [fetches EXCEPT ![f] =
       [r EXCEPT !.pc = "resolved", !.val = got.value, !.rateLimited = RateLimited(res)]]
  /\ ID_MAP_CACHE' =
       IF got.store THEN Put(ID_MAP_CACHE, trim(toUpperCase(r.ticker)), got.value)
       ELSE ID_MAP_CACHE
  /\ UNCHANGED <<now, PRICE_CACHE, PENDING_REQUESTS, COMPANY_ID_CACHE, calls>>

\* The producer resumes from `await getCoinId(ticker)`.
AfterGetCoinId(f) ==
  LET r == fetches[f] IN
  /\ r.provider = "coin" /\ r.pc = "resolved"
  /\ IF r.val.t = "rejected"
     THEN Settle(f, "exception", Caught)
     ELSE IF ~Truthy(r.val)
     THEN Settle(f, "absent", Null)
     ELSE /\ fetches' = [fetches EXCEPT ![f] =
               [r EXCEPT !.pc = "price", !.nPrice = r.nPrice + 1]]
          /\ UNCHANGED PENDING_REQUESTS
  /\ UNCHANGED <<now, PRICE_CACHE, COMPANY_ID_CACHE, ID_MAP_CACHE, calls>>

\* Bodies of the simple-price query, as the value of data[coinId]?.php.
SimplePriceBodies ==
  {Malformed} \cup { [t |-> "object", php |-> v] : v \in {Num(500025), Undefined, Null} }

SimplePriceResponses ==
  {NetworkError} \cup {Response(st, Malformed) : st \in Statuses}
    \cup {Response(200, b) : b \in SimplePriceBodies}

SimplePriceOutcome(ticker, res) ==
  IF Unreadable(res) THEN [exit |-> "exception", value |-> Caught]
  ELSE IF res.body.php.t = "undefined" THEN [exit |-> "absent", value |-> Null]
  ELSE [exit |-> "record",
        value |-> PriceResponse("Crypto Exchange", ticker, res.body.php, "CoinGecko")]

SimplePriceResponds(f, res) ==
  LET r   == fetches[f]
      out == SimplePriceOutcome(r.ticker, res)
  IN
  /\ r.provider = "coin" /\ r.pc = "price"
  /\ ~MicrotaskPending
  /\ IF out.exit = "record"
     THEN CacheWrite("coin", r.ticker, out.value)
     ELSE UNCHANGED PRICE_CACHE
  /\ SettleAt(f, out.exit, out.value, RateLimited(res))
  /\ UNCHANGED <<now, COMPANY_ID_CACHE, ID_MAP_CACHE, calls>>

\* ---------------------------------------------- src/services/priceService.ts
\* Faulty variant: every type that is not a stock goes to the crypto fetcher.
RouteElseCrypto(type) == IF type = "Stock" THEN "pse" ELSE "crypto"

\* The fetcher getPriceForAsset delegates to, by asset.type.
Route(type) ==
  CASE type = "Stock"  -> "pse"
    [] type = "Crypto" -> "crypto"
    [] OTHER           -> "none"

getPriceForAsset(asset) ==
  CASE Route(asset.type) = "pse"    -> fetchPseStockPrice(asset.type, asset.ticker)
    [] Route(asset.type) = "crypto" -> fetchCryptoPrice(asset.type, asset.ticker)
    [] OTHER ->
         /\ Len(calls) < MaxCalls
         /\ calls' = Append(calls, Call(asset.type, "none", asset.ticker, "unrouted",
                                        0, TRUE, Null))
         /\ UNCHANGED <<now, PRICE_CACHE, PENDING_REQUESTS, COMPANY_ID_CACHE,
                        ID_MAP_CACHE, fetches>>

\* ------------------------------------------------------------- scheduling
\* A waiting caller receives the outcome of the promise it awaits.
Deliver(i) ==
  /\ ~calls[i].done /\ calls[i].fetch # 0 /\ Settled(calls[i].fetch)
  /\ calls' = [calls EXCEPT ![i] =
       [@ EXCEPT !.done = TRUE, !.result = fetches[calls[i].fetch].result]]
  /\ UNCHANGED <<now, PRICE_CACHE, PENDING_REQUESTS, COMPANY_ID_CACHE,
                 ID_MAP_CACHE, fetches>>

\* Faulty variant: the passing of time releases every in-flight entry.
TickReleasing ==
  /\ TickIndex(now) < MaxTicks
  /\ now' = NextInstant(now)
  /\ PENDING_REQUESTS' = [p \in Providers |-> EmptyMap]
  /\ UNCHANGED <<PRICE_CACHE, COMPANY_ID_CACHE, ID_MAP_CACHE, fetches, calls>>

Tick ==
  /\ TickIndex(now) < MaxTicks
  /\ now' = NextInstant(now)
  /\ UNCHANGED <<PRICE_CACHE, PENDING_REQUESTS, COMPANY_ID_CACHE, ID_MAP_CACHE,
                 fetches, calls>>

\* The price services under single calls of getPriceForAsset; the state of
\* the component is not touched.
Next ==
  \/ \E asset \in Assets : getPriceForAsset(asset) /\ UNCHANGED appVars
  \/ \E f \in 1..Len(fetches) :
       \E res \in SearchResponses(fetches[f].ticker) :
         SearchResponds(f, res) /\ UNCHANGED appVars
  \/ \E f \in 1..Len(fetches) : AfterGetCompanyId(f) /\ UNCHANGED appVars
  \/ \E f \in 1..Len(fetches) : \E res \in DocumentResponses :
       DocumentResponds(f, res) /\ UNCHANGED appVars
  \/ \E f \in 1..Len(fetches) : AfterGetLastTradedPrice(f) /\ UNCHANGED appVars
  \/ \E f \in 1..Len(fetches) :
       \E res \in MarketsResponses(fetches[f].ticker) :
         MarketsResponds(f, res) /\ UNCHANGED appVars
  \/ \E i \in 1..Len(calls) : Deliver(i) /\ UNCHANGED appVars
  \/ Tick /\ UNCHANGED appVars

Spec == Init /\ [][Next]_vars

\* The two-step fetcher of part_001, which no module imports, called directly.
NextById ==
  \/ \E symbol \in Symbols : fetchCryptoPriceById(symbol) /\ UNCHANGED appVars
  \/ \E f \in 1..Len(fetches) :
       \E res \in CoinSearchResponses(fetches[f].ticker) :
         CoinSearchResponds(f, res) /\ UNCHANGED appVars
  \/ \E f \in 1..Len(fetches) : AfterGetCoinId(f) /\ UNCHANGED appVars
  \/ \E f \in 1..Len(fetches) : \E res \in SimplePriceResponses :
       SimplePriceResponds(f, res) /\ UNCHANGED appVars
  \/ \E i \in 1..Len(calls) : Deliver(i) /\ UNCHANGED appVars
  \/ Tick /\ UNCHANGED appVars

SpecById == Init /\ [][NextById]_vars

\* What a caller holds after it stopped waiting: nothing.
Abandoned == [t |-> "abandoned"]

\* Faulty variant: a fetch that loses its last waiting caller is cancelled
\* (settled absent, its in-flight entry removed).
AbandonCancelling(i) ==
  LET f == calls[i].fetch
      r == fetches[f]
  IN
  /\ ~calls[i].done /\ f # 0
  /\ calls' = [calls EXCEPT ![i] = [@ EXCEPT !.done = TRUE, !.result = Abandoned]]
  /\ IF r.pc # "settled" /\ \A j \in 1..Len(calls) : (j # i /\ calls[j].fetch = f) => calls[j].done
     THEN /\ fetches' = [fetches EXCEPT ![f] =
               [r EXCEPT !.pc = "settled", !.val = Null, !.exit = "absent", !.result = Null]]
          /\ PENDING_REQUESTS' = [PENDING_REQUESTS EXCEPT ![Maps(r.provider)] =
               Delete(@, r.ticker)]
     ELSE UNCHANGED <<fetches, PENDING_REQUESTS>>
  /\ UNCHANGED <<now, PRICE_CACHE, COMPANY_ID_CACHE, ID_MAP_CACHE>>

\* A caller stops waiting for the promise it was given.  The promise is all
\* it holds: the fetchers take no abort signal and export no handle on the
\* producer, so nothing but the caller changes.
Abandon(i) ==
  /\ ~calls[i].done /\ calls[i].fetch # 0
  /\ calls' = [calls EXCEPT ![i] = [@ EXCEPT !.done = TRUE, !.result = Abandoned]]
  /\ UNCHANGED <<now, PRICE_CACHE, PENDING_REQUESTS, COMPANY_ID_CACHE,
                 ID_MAP_CACHE, fetches>>

\* The assets of the callers that may stop waiting.
AbandonAssets ==
  { [type |-> "Stock",  ticker |-> <<" ", "a", "c">>],
    [type |-> "Crypto", ticker |-> <<"A", "C">>] }

\* The steps of one producer.
Progress(f) ==
  \/ \E res \in SearchResponses(fetches[f].ticker) : SearchResponds(f, res)
  \/ AfterGetCompanyId(f)
  \/ \E res \in DocumentResponses : DocumentResponds(f, res)
  \/ AfterGetLastTradedPrice(f)
  \/ \E res \in MarketsResponses(fetches[f].ticker) : MarketsResponds(f, res)

\* The application with callers that may stop waiting.
NextAbandon ==
  \/ \E asset \in AbandonAssets : getPriceForAsset(asset) /\ UNCHANGED appVars
  \/ \E f \in 1..Len(fetches) : Progress(f) /\ UNCHANGED appVars
  \/ \E i \in 1..Len(calls) : Deliver(i) /\ UNCHANGED appVars
  \/ \E i \in 1..Len(calls) : Abandon(i) /\ UNCHANGED appVars
  \/ Tick /\ UNCHANGED appVars

SpecAbandon == Init /\ [][NextAbandon]_vars

\* ------------------------------------------------------------- src/App.tsx
\* The assets of data.assets in the batches of the model.
RefreshAssets ==
  { [type |-> "Stock",  ticker |-> <<" ", "a", "c">>],
    [type |-> "Crypto", ticker |-> <<"A", "C">>],
    [type |-> "Crypto", ticker |-> <<"C", "O", "N", "S", "T", "R", "U", "C", "T", "O", "R">>],
    [type |-> "Cash",   ticker |-> <<"A", "C">>] }

\* listToRefresh: the lists of one and of two assets.
RefreshLists ==
  { <<a>> : a \in RefreshAssets } \cup
  { <<a, b>> : a \in RefreshAssets, b \in RefreshAssets }

\* What getTradingViewLogo resolves with: an image URL or null.
LogoUrls == { Null, Str(<<"l">>) }

\* listToRefresh.map is still calling its callbacks, one after the other,
\* each up to its first await.
Dispatching == refresh.active /\ refresh.pos <= Len(refresh.list)

\* A callback of listToRefresh.map suspended at `await getPriceForAsset`.
Slot(call) == [call |-> call, phase |-> "price", res |-> Undefined]

\* refreshPrices(assetList) up to listToRefresh.map: the guard, then
\* setIsRefreshing(true); currentIcons is the data.assetIcons it closes over.
refreshPrices(list) ==
  /\ ~refresh.active /\ Len(list) # 0
  /\ Len(calls) + Len(list) <= MaxCalls
  /\ refresh' = [active |-> TRUE, list |-> list, pos |-> 1, slots |-> <<>>,
                 icons |-> assetIcons]
  /\ UNCHANGED <<now, PRICE_CACHE, PENDING_REQUESTS, COMPANY_ID_CACHE, ID_MAP_CACHE,
                 fetches, calls, prices, assetIcons, adding>>

\* The callback of the next asset runs up to `await getPriceForAsset(asset)`.
RefreshDispatch ==
  /\ Dispatching
  /\ getPriceForAsset(refresh.list[refresh.pos])
  /\ refresh' = [refresh EXCEPT !.pos = @ + 1,
                                !.slots = Append(@, Slot(Len(calls) + 1))]
  /\ UNCHANGED <<prices, assetIcons, adding>>

\* The callback of asset k resumes with priceRes: a Stock without an icon
\* awaits getTradingViewLogo, every other asset returns priceRes; a
\* rejection is caught and returns null.
AfterGetPriceForAsset(k) ==
  LET slot     == refresh.slots[k]
      asset    == refresh.list[k]
      priceRes == calls[slot.call].result
  IN
  /\ refresh.active /\ ~Dispatching
  /\ slot.phase = "price" /\ calls[slot.call].done
  /\ refresh' = [refresh EXCEPT !.slots[k] =
       IF priceRes = Rejected
         THEN [slot EXCEPT !.phase = "done", !.res = Null]
       ELSE IF asset.type = "Stock" /\ ~Truthy(Get(refresh.icons, asset.ticker))
         THEN [slot EXCEPT !.phase = "logo", !.res = priceRes]
       ELSE [slot EXCEPT !.phase = "done", !.res = priceRes]]
  /\ UNCHANGED <<now, PRICE_CACHE, PENDING_REQUESTS, COMPANY_ID_CACHE, ID_MAP_CACHE,
                 fetches, calls, prices, assetIcons, adding>>

\* getTradingViewLogo resolves: a URL is stored by updateData over the
\* icons the callback closed over; the callback returns priceRes.
LogoResponds(k, logoUrl) ==
  LET slot  == refresh.slots[k]
      asset == refresh.list[k]
  IN
  /\ refresh.active /\ ~Dispatching /\ ~MicrotaskPending
  /\ slot.phase = "logo"
  /\ assetIcons' = IF Truthy(logoUrl) THEN Put(refresh.icons, asset.ticker, logoUrl)
                   ELSE assetIcons
  /\ refresh' = [refresh EXCEPT !.slots[k] = [slot EXCEPT !.phase = "done"]]
  /\ UNCHANGED <<now, PRICE_CACHE, PENDING_REQUESTS, COMPANY_ID_CACHE, ID_MAP_CACHE,
                 fetches, calls, prices, adding>>

\* res.asset as a property key: a value without that property gives the
\* key "undefined".
KeyOf(res) ==
  IF "asset" \in DOMAIN res THEN res.asset
  ELSE <<"u", "n", "d", "e", "f", "i", "n", "e", "d">>

RECURSIVE MergeUntilNull(_, _)
\* Faulty variant: the merge stops at the first result that is null.
MergeUntilNull(prev, results) ==
  IF results = <<>> THEN prev
  ELSE IF Truthy(Head(results))
    THEN MergeUntilNull(Put(prev, KeyOf(Head(results)), Head(results)), Tail(results))
  ELSE prev

RECURSIVE Merge(_, _)
\* results.forEach(res => { if (res) next[res.asset] = res; }) over { ...prev }
Merge(prev, results) ==
  IF results = <<>> THEN prev
  ELSE IF Truthy(Head(results))
    THEN Merge(Put(prev, KeyOf(Head(results)), Head(results)), Tail(results))
  ELSE Merge(prev, Tail(results))

\* The results of Promise.all(fetchPromises), in the order of the list.
Results == [k \in 1..Len(refresh.slots) |-> refresh.slots[k].res]

\* Promise.all has resolved: setPrices merges the results, and the finally
\* block sets isRefreshing back to false.
RefreshMerge ==
  /\ refresh.active /\ ~Dispatching
  /\ \A k \in 1..Len(refresh.slots) : refresh.slots[k].phase = "done"
  /\ prices' = Merge(prices, Results)
  /\ refresh' = Idle
  /\ UNCHANGED <<now, PRICE_CACHE, PENDING_REQUESTS, COMPANY_ID_CACHE, ID_MAP_CACHE,
                 fetches, calls, assetIcons, adding>>

\* The component refreshing its prices: the callbacks of one map() call run
\* without anything between them; everything else interleaves.
NextRefresh ==
  \/ \E list \in RefreshLists : refreshPrices(list)
  \/ RefreshDispatch
  \/ \E f \in 1..Len(fetches) : ~Dispatching /\ Progress(f) /\ UNCHANGED appVars
  \/ \E i \in 1..Len(calls) : ~Dispatching /\ Deliver(i) /\ UNCHANGED appVars
  \/ \E k \in 1..Len(refresh.slots) : AfterGetPriceForAsset(k)
  \/ \E k \in 1..Len(refresh.slots) : \E logoUrl \in LogoUrls : LogoResponds(k, logoUrl)
  \/ RefreshMerge
  \/ ~Dispatching /\ Tick /\ UNCHANGED appVars

SpecRefresh == Init /\ [][NextRefresh]_vars

\* ------------------------------------------------ src/unnamed/part_004
\* What the add form is submitted with: formData.type and formData.ticker.
AddForms ==
  { [type |-> "Stock",  ticker |-> <<" ", "a", "c">>],
    [type |-> "Crypto", ticker |-> <<"a", "c">>],
    [type |-> "Stock",  ticker |-> <<"c", "o", "n", "s", "t", "r", "u", "c", "t", "o", "r">>],
    [type |-> "Crypto", ticker |-> <<"c", "o", "n", "s", "t", "r", "u", "c", "t", "o", "r">>],
    [type |-> "Cash",   ticker |-> <<"a", "c">>] }

\* handleAddAsset up to `await getPriceForAsset(activeAsset)`: the asset
\* carries tickerUpper = formData.ticker.toUpperCase().trim().
handleAddAsset(form) ==
  LET tickerUpper == trim(toUpperCase(form.ticker)) IN
  /\ getPriceForAsset([type |-> form.type, ticker |-> tickerUpper])
  /\ adding' = Append(adding, [call |-> Len(calls) + 1, tickerUpper |-> tickerUpper,
                               done |-> FALSE])
  /\ UNCHANGED <<prices, assetIcons, refresh>>

\* handleAddAsset resumes with priceRes:
\* if (priceRes) setPrices(prev => ({ ...prev, [tickerUpper]: priceRes }));
\* a rejection is caught and logged.
AfterAddPrice(a) ==
  LET priceRes == calls[adding[a].call].result IN
  /\ ~adding[a].done /\ calls[adding[a].call].done
  /\ ~Dispatching
  /\ prices' = IF priceRes # Rejected /\ Truthy(priceRes)
               THEN Put(prices, adding[a].tickerUpper, priceRes)
               ELSE prices
  /\ adding' = [adding EXCEPT ![a].done = TRUE]
  /\ UNCHANGED <<now, PRICE_CACHE, PENDING_REQUESTS, COMPANY_ID_CACHE, ID_MAP_CACHE,
                 fetches, calls, assetIcons, refresh>>

\* The component with its two ways to the price map: the batch refresh
\* and the add form.
NextPortfolio ==
  \/ \E list \in RefreshLists : refreshPrices(list)
  \/ RefreshDispatch
  \/ \E form \in AddForms : ~Dispatching /\ handleAddAsset(form)
  \/ \E f \in 1..Len(fetches) : ~Dispatching /\ Progress(f) /\ UNCHANGED appVars
  \/ \E i \in 1..Len(calls) : ~Dispatching /\ Deliver(i) /\ UNCHANGED appVars
  \/ \E k \in 1..Len(refresh.slots) : AfterGetPriceForAsset(k)
  \/ \E k \in 1..Len(refresh.slots) : \E logoUrl \in LogoUrls : LogoResponds(k, logoUrl)
  \/ RefreshMerge
  \/ \E a \in 1..Len(adding) : AfterAddPrice(a)
  \/ ~Dispatching /\ Tick /\ UNCHANGED appVars

SpecPortfolio == Init /\ [][NextPortfolio]_vars

\* -------------------------------------------------------------- properties
Running(f) == fetches[f].pc # "settled"
FetchIds == 1..Len(fetches)
CallIds == 1..Len(calls)

\* Two spellings of one ticker: equal up to letter case and outer blanks.
SameTicker(a, b) == trim(toLowerCase(a)) = trim(toLowerCase(b))

\* The step is a call; NewCall is the call it adds.
IsCallStep == Len(calls') = Len(calls) + 1
NewCall == calls'[Len(calls')]

\* The keys of provider p's cache that hold an entry for `symbol`.
EntriesFor(p, symbol) == {k \in DOMAIN PRICE_CACHE[p] : SameTicker(k, symbol)}
AgeOf(record) == now - getTime(record.retrieved_at)

\* The fetches of provider p for `symbol` that have not settled.
RunningFor(p, symbol) ==
  {f \in FetchIds : /\ Running(f) /\ fetches[f].provider = p
                    /\ SameTicker(fetches[f].ticker, symbol)}

\* C1: at every instant each provider has at most one running producer per
\* normalized ticker, and the in-flight map holds exactly the running
\* producers: a running producer is registered under its ticker (so no
\* caller finds "no in-flight entry" while one runs) and every entry is the
\* producer for its key.
C1_SingleFlight ==
  /\ \A f, g \in FetchIds :
       (f # g /\ Running(f) /\ Running(g)
          /\ fetches[f].provider = fetches[g].provider)
       => ~SameTicker(fetches[f].ticker, fetches[g].ticker)
  /\ \A f \in FetchIds :
       Running(f) =>
         /\ Has(PENDING_REQUESTS[fetches[f].provider], fetches[f].ticker)
         /\ PENDING_REQUESTS[fetches[f].provider][fetches[f].ticker] = Promise(f)
  /\ \A p \in Providers : \A k \in DOMAIN PENDING_REQUESTS[p] :
       /\ PENDING_REQUESTS[p][k].f \in FetchIds
       /\ fetches[PENDING_REQUESTS[p][k].f].provider = p
       /\ fetches[PENDING_REQUESTS[p][k].f].ticker = k

\* A second caller, with another spelling, has joined a producer that is
\* still running.
C1_Witness ==
  \E i, j \in CallIds :
    /\ calls[i].kind = "started" /\ calls[j].kind = "joined"
    /\ calls[i].fetch = calls[j].fetch
    /\ calls[i].symbol # calls[j].symbol
    /\ Running(calls[i].fetch)

\* C2 as stated: every fetch that N callers share performs exactly one
\* document fetch (equities) or markets query (crypto), and every caller
\* receives the result of that fetch.
C2_ExactlyOneOperation ==
  \A f \in FetchIds :
    Settled(f) =>
      /\ fetches[f].nPrice = 1
      /\ \A i \in CallIds :
           (calls[i].fetch = f /\ calls[i].done) => calls[i].result = fetches[f].result

\* The producers counted per fetch: at most one request of each kind; the
\* price request is sent exactly once by a crypto fetch and by every equity
\* fetch whose identifier resolution returned an identifier.
OperationsOfOneFetch(f) ==
  /\ fetches[f].nSearch <= 1 /\ fetches[f].nPrice <= 1
  /\ fetches[f].provider = "crypto" => fetches[f].nPrice = 1
  /\ (fetches[f].provider = "pse" /\ fetches[f].pc \in {"document", "extracted"})
       => fetches[f].nPrice = 1
  /\ (fetches[f].provider = "pse" /\ fetches[f].exit = "record") => fetches[f].nPrice = 1
  /\ Settled(f) => fetches[f].nSearch + fetches[f].nPrice >= 1

\* A call for a ticker with no fresh entry, made while a fetch for the
\* ticker runs, joins that fetch and starts nothing.
C2_JoinStep ==
  IsCallStep =>
    \A g \in RunningFor(NewCall.provider, NewCall.symbol) :
      (\A k \in EntriesFor(NewCall.provider, NewCall.symbol) :
          AgeOf(PRICE_CACHE[NewCall.provider][k]) >= CACHE_TTL_MS)
      => /\ NewCall.kind = "joined" /\ NewCall.fetch = g
         /\ fetches' = fetches

\* C2 (amended): the N callers start at most one fetch between them; that
\* fetch sends at most one request of each kind (the equity document fetch
\* is sent once when the identifier resolves and not at all when it does
\* not, the markets query always once), every caller of the fetch receives
\* its one result, and a call made while the fetch runs starts nothing.
C2_OneFetchShared ==
  /\ [](\A f \in FetchIds :
          /\ OperationsOfOneFetch(f)
          /\ \A i \in CallIds :
               (calls[i].fetch = f /\ calls[i].done)
               => (Settled(f) /\ calls[i].result = fetches[f].result))
  /\ [][C2_JoinStep]_vars

\* Two callers of one fetch have both received the record it produced.
C2_Witness ==
  \E i, j \in CallIds :
    /\ i # j /\ calls[i].fetch = calls[j].fetch /\ calls[i].fetch # 0
    /\ calls[i].done /\ calls[j].done
    /\ IsPriceResponse(calls[i].result) /\ calls[i].result = calls[j].result

\* C3: whenever a fetch settles, by a record, by an absent result or through
\* an exception in the producer, its in-flight entry is gone: no entry refers
\* to a settled fetch, a call never joins a settled fetch, and a call for the
\* key of a settled fetch that finds no fresh entry starts a new fetch.
C3_StartsAnew ==
  IsCallStep =>
    /\ NewCall.kind = "joined" => Running(NewCall.fetch)
    /\ ( /\ \E f \in FetchIds :
              /\ Settled(f) /\ fetches[f].provider = NewCall.provider
              /\ SameTicker(fetches[f].ticker, NewCall.symbol)
         /\ RunningFor(NewCall.provider, NewCall.symbol) = {}
         /\ \A k \in EntriesFor(NewCall.provider, NewCall.symbol) :
              AgeOf(PRICE_CACHE[NewCall.provider][k]) >= CACHE_TTL_MS )
       => /\ NewCall.kind = "started"
          /\ NewCall.fetch = Len(fetches) + 1
          /\ Len(fetches') = Len(fetches) + 1

C3_HandleRemoved ==
  /\ [](\A p \in Providers : \A k \in DOMAIN PENDING_REQUESTS[p] :
          Running(PENDING_REQUESTS[p][k].f))
  /\ [](\A f \in FetchIds :
          Settled(f) => \A k \in DOMAIN PENDING_REQUESTS[fetches[f].provider] :
                          PENDING_REQUESTS[fetches[f].provider][k] # Promise(f))
  /\ [][C3_StartsAnew]_vars

\* A fetch ended through the catch block, and a later call for the same
\* ticker has started a new fetch.
C3_Witness ==
  \E f, g \in FetchIds :
    /\ f < g /\ fetches[f].provider = fetches[g].provider
    /\ SameTicker(fetches[f].ticker, fetches[g].ticker)
    /\ fetches[f].exit = "exception" /\ Settled(f)
    /\ \E i \in CallIds : calls[i].kind = "started" /\ calls[i].fetch = g

\* The record a successful fetch f left in the cache of its provider.
RecordOf(f) == fetches[f].result
Succeeded(f) == Settled(f) /\ fetches[f].exit = "record"

\* C4: a call made less than TTL after a successful fetch wrote its record
\* returns that very record (which is still the cache entry) and performs
\* no network operation: it creates no fetch and joins none.
C4_HitStep ==
  IsCallStep =>
    \A f \in FetchIds :
      ( /\ Succeeded(f) /\ fetches[f].provider = NewCall.provider
        /\ SameTicker(fetches[f].ticker, NewCall.symbol)
        /\ AgeOf(RecordOf(f)) < CACHE_TTL_MS )
      => /\ NewCall.kind = "hit" /\ NewCall.done
         /\ NewCall.result = RecordOf(f)
         /\ NewCall.fetch = 0
         /\ fetches' = fetches

C4_FreshHit ==
  /\ [](\A f \in FetchIds :
          (Succeeded(f) /\ AgeOf(RecordOf(f)) < CACHE_TTL_MS)
          => \E k \in EntriesFor(fetches[f].provider, fetches[f].ticker) :
               PRICE_CACHE[fetches[f].provider][k] = RecordOf(f))
  /\ [][C4_HitStep]_vars

\* A call was answered from the cache one millisecond before the record
\* expires, under another spelling than the one that fetched it.
C4_Witness ==
  \E i, j \in CallIds :
    /\ calls[i].kind = "started" /\ Succeeded(calls[i].fetch)
    /\ calls[j].kind = "hit" /\ calls[j].result = RecordOf(calls[i].fetch)
    /\ calls[j].symbol # calls[i].symbol
    /\ AgeOf(calls[j].result) = CACHE_TTL_MS - 1

\* C5: a call that finds a cache entry of age TTL or more, and no fetch in
\* flight for the ticker, does not return the entry: it starts a new fetch,
\* and a fetch sends at least one network request (at once, or when the
\* producer resumes with the stored identifier) before it settles.
C5_StaleStep ==
  /\ ( /\ IsCallStep
       /\ NewCall.provider \in Providers
       /\ EntriesFor(NewCall.provider, NewCall.symbol) # {}
       /\ \A k \in EntriesFor(NewCall.provider, NewCall.symbol) :
            AgeOf(PRICE_CACHE[NewCall.provider][k]) >= CACHE_TTL_MS
       /\ RunningFor(NewCall.provider, NewCall.symbol) = {} )
     => /\ NewCall.kind = "started" /\ ~NewCall.done
        /\ Len(fetches') = Len(fetches) + 1
        /\ LET n == fetches'[NewCall.fetch] IN
             \/ n.nSearch + n.nPrice = 1
             \/ n.pc = "resolved" /\ Truthy(n.val)
  /\ \A f \in FetchIds :
       (fetches[f].pc = "resolved" /\ Truthy(fetches[f].val) /\ fetches'[f] # fetches[f])
       => fetches'[f].pc \in {"document", "price"} /\ fetches'[f].nPrice = 1

C6_NeverThrows ==
  /\ \A f \in FetchIds :
       Settled(f) => (fetches[f].result = Null \/ IsPriceResponse(fetches[f].result))
  /\ \A i \in CallIds :
       calls[i].done => (calls[i].result = Null \/ IsPriceResponse(calls[i].result))
  /\ \A f \in FetchIds : fetches[f].val # Rejected

\* The maps of one fetcher module.
MapsOf(q) == <<PRICE_CACHE[q], PENDING_REQUESTS[q]>>
AllMaps == <<PRICE_CACHE, PENDING_REQUESTS, COMPANY_ID_CACHE, ID_MAP_CACHE>>

\* C7: getPriceForAsset only routes.  A Stock asset reaches the equity
\* fetcher alone and a Crypto asset the crypto fetcher alone (the maps of the
\* other fetcher stay as they are); any other type returns null at once with
\* no fetch created and every map unchanged; a caller that waits for a fetch
\* receives that fetch's result unchanged.
C7_RouteStep ==
  IsCallStep =>
    /\ NewCall.type = "Stock" =>
         /\ NewCall.provider = "pse"
         /\ MapsOf("crypto")' = MapsOf("crypto")
         /\ NewCall.kind = "started" => fetches'[NewCall.fetch].provider = "pse"
    /\ NewCall.type = "Crypto" =>
         /\ NewCall.provider = "crypto"
         /\ MapsOf("pse")' = MapsOf("pse") /\ COMPANY_ID_CACHE' = COMPANY_ID_CACHE
         /\ NewCall.kind = "started" => fetches'[NewCall.fetch].provider = "crypto"
    /\ NewCall.type \in {"Cash", "Other"} =>
         /\ NewCall.done /\ NewCall.result = Null /\ NewCall.fetch = 0
         /\ fetches' = fetches
         /\ AllMaps' = AllMaps

C7_PureRouting ==
  /\ [](\A i \in CallIds :
          (calls[i].done /\ calls[i].fetch # 0)
          => calls[i].result = fetches[calls[i].fetch].result)
  /\ [][C7_RouteStep]_vars

\* A Cash or Other asset was answered with null while an equity fetch,
\* started for a Stock asset, was running and stayed untouched.
C7_Witness ==
  \E i, j \in CallIds :
    /\ i < j
    /\ calls[i].type = "Stock" /\ calls[i].kind = "started" /\ Running(calls[i].fetch)
    /\ calls[j].type \in {"Cash", "Other"} /\ calls[j].done /\ calls[j].result = Null

\* The label each fetcher writes into the `source` field of its records.
SourceOf(p) ==
  CASE p = "pse" -> "PSE Edge" [] p = "crypto" -> "CoinGecko Markets" [] OTHER -> "CoinGecko"

\* The fetcher that runs in this step: the one called, or the one whose
\* producer resumes.
ActsIn(q) ==
  \/ IsCallStep /\ NewCall.provider = q
  \/ \E f \in FetchIds : fetches'[f] # fetches[f] /\ fetches[f].provider = q

\* C8: the fetchers keep separate state.  The maps of a fetcher change only
\* in steps of that fetcher; each cache holds only records its own fetcher
\* made; a call is answered only from the cache of its fetcher and joins
\* only a fetch of its fetcher, also when both hold the same ticker string.
C8_SeparateState ==
  /\ [](\A q \in Providers : \A k \in DOMAIN PRICE_CACHE[q] :
          PRICE_CACHE[q][k].source = SourceOf(q))
  /\ [](\A q \in Providers : \A k \in DOMAIN PENDING_REQUESTS[q] :
          fetches[PENDING_REQUESTS[q][k].f].provider = q)
  /\ [](\A i \in CallIds :
          /\ calls[i].kind = "hit" => calls[i].result.source = SourceOf(calls[i].provider)
          /\ calls[i].fetch # 0 => fetches[calls[i].fetch].provider = calls[i].provider)
  /\ [][\A q \in Providers : (MapsOf(q)' # MapsOf(q)) => ActsIn(q)]_vars
  /\ [][COMPANY_ID_CACHE' # COMPANY_ID_CACHE => ActsIn("pse")]_vars

\* Both caches hold a fresh record under the same key "AC", each its own.
C8_Witness ==
  \E k \in DOMAIN PRICE_CACHE["pse"] :
    /\ k \in DOMAIN PRICE_CACHE["crypto"]
    /\ PRICE_CACHE["pse"][k] # PRICE_CACHE["crypto"][k]
    /\ PRICE_CACHE["pse"][k].asset = PRICE_CACHE["crypto"][k].asset

\* The entries of a map under keys other than those of `ticker`.
OtherEntries(m, ticker) == [k \in {x \in DOMAIN m : ~SameTicker(x, ticker)} |-> m[k]]

\* C9: distinct tickers of one fetcher are independent.  Two in-flight
\* entries never hold the same promise; a call joins only a fetch for its own
\* ticker, and a call whose ticker has neither a cache entry nor a running
\* fetch starts its own fetch whatever runs for other tickers; a step of a
\* fetch leaves the cache entries, the in-flight entries and the fetches of
\* every other ticker as they were.
C9_KeyStep ==
  /\ IsCallStep =>
       /\ NewCall.kind = "joined" =>
            SameTicker(fetches[NewCall.fetch].ticker, NewCall.symbol)
       /\ NewCall.kind = "hit" => SameTicker(NewCall.result.asset, NewCall.symbol)
       /\ ( /\ NewCall.provider \in Providers
            /\ EntriesFor(NewCall.provider, NewCall.symbol) = {}
            /\ RunningFor(NewCall.provider, NewCall.symbol) = {} )
          => NewCall.kind = "started"
  /\ \A f \in FetchIds :
       fetches'[f] # fetches[f] =>
         /\ \A g \in FetchIds \ {f} : fetches'[g] = fetches[g]
         /\ \A q \in Providers :
              /\ OtherEntries(PRICE_CACHE[q], fetches[f].ticker)'
                   = OtherEntries(PRICE_CACHE[q], fetches[f].ticker)
              /\ OtherEntries(PENDING_REQUESTS[q], fetches[f].ticker)'
                   = OtherEntries(PENDING_REQUESTS[q], fetches[f].ticker)

C9_KeyIndependence ==
  /\ [](\A q \in Providers : \A k1, k2 \in DOMAIN PENDING_REQUESTS[q] :
          k1 # k2 => PENDING_REQUESTS[q][k1] # PENDING_REQUESTS[q][k2])
  /\ [][C9_KeyStep]_vars

\* Two fetches of one fetcher for different tickers: the one started later
\* has settled with a record while the earlier one is still pending.
C9_Witness ==
  \E f, g \in FetchIds :
    /\ f < g /\ fetches[f].provider = fetches[g].provider
    /\ ~SameTicker(fetches[f].ticker, fetches[g].ticker)
    /\ Running(f) /\ Succeeded(g)

\* The one normal form of the keys of each map: upper case for the caches
\* and the identifier maps and for the in-flight map of pseService.ts and
\* part_001, lower case for the in-flight map of cryptoService.ts.
IsUpper(k) == k = toUpperCase(k) /\ k = trim(k)
IsLower(k) == k = toLowerCase(k) /\ k = trim(k)

\* C10: spellings that differ only in letter case are one ticker.  Each map
\* is keyed in one normal form (so it has at most one entry per ticker); a
\* call in any spelling is answered by the fresh record cached under another
\* spelling, and a call made while a fetch started under another spelling
\* runs joins that fetch.
C10_SpellingStep ==
  (IsCallStep /\ NewCall.provider \in Providers) =>
    /\ \A k \in EntriesFor(NewCall.provider, NewCall.symbol) :
         AgeOf(PRICE_CACHE[NewCall.provider][k]) < CACHE_TTL_MS
         => NewCall.kind = "hit" /\ NewCall.result = PRICE_CACHE[NewCall.provider][k]
    /\ \A g \in RunningFor(NewCall.provider, NewCall.symbol) :
         NewCall.kind \in {"hit", "joined"}
         /\ (NewCall.kind = "joined" => NewCall.fetch = g)

C10_CaseInsensitive ==
  /\ [](\A q \in Providers :
          /\ \A k \in DOMAIN PRICE_CACHE[q] : IsUpper(k) /\ PRICE_CACHE[q][k].asset = k
          /\ \A k \in DOMAIN PENDING_REQUESTS[q] :
               IF q = "crypto" THEN IsLower(k) ELSE IsUpper(k))
  /\ [](\A k \in DOMAIN COMPANY_ID_CACHE : IsUpper(k))
  /\ [](\A k \in DOMAIN ID_MAP_CACHE : IsUpper(k))
  /\ [][C10_SpellingStep]_vars

\* In the crypto fetcher a call in one spelling has joined the fetch that
\* another spelling started, and has received the record cached under the
\* upper-case key, which is not the spelling it passed.
C10_Witness ==
  \E i, j \in CallIds :
    /\ calls[i].provider = "crypto"
    /\ calls[i].kind = "started" /\ calls[j].kind = "joined"
    /\ calls[i].fetch = calls[j].fetch
    /\ calls[i].symbol # calls[j].symbol
    /\ Succeeded(calls[i].fetch)
    /\ calls[j].done /\ calls[j].result.asset = toUpperCase(calls[i].symbol)
    /\ calls[j].result.asset # calls[j].symbol

\* The price fields a record may not carry.
NoPrice(price) == price.t \in {"null", "undefined"}

\* A markets response with no element, or whose selected element (the
\* symbol match, else the first) has a null or undefined current_price.
LacksMarketPrice(ticker, res) ==
  /\ res.t = "response" /\ ok(res) /\ res.body.t # "malformed"
  /\ \/ res.body.t # "array"
     \/ res.body.items = <<>>
     \/ LET r == findMarket(res.body.items, ticker) IN
        /\ ~r.threw
        /\ NoPrice((IF Truthy(r.match) THEN r.match ELSE res.body.items[1]).current_price)

\* A simple-price response whose php field is null or undefined.
LacksSimplePrice(res) ==
  res.t = "response" /\ ok(res) /\ res.body.t = "object" /\ NoPrice(res.body.php)

\* The cryptocurrency fetchers: cryptoService.ts and part_001.
CryptoProviders == {"crypto", "coin"}

\* A fetch settles in this step without a record.
SettlesWithout(f) == Running(f) /\ fetches'[f].pc = "settled" /\ fetches'[f].exit # "record"

\* C11: in the crypto fetchers a response with no element, or whose selected
\* element has a null or undefined price, yields absent: for every such
\* response a waiting producer can receive the outcome is no record; no
\* crypto record (returned or cached) has a price that is null, undefined,
\* NaN or zero; a fetch that settles without a record leaves the cache as it
\* was.
C11_AbsentPrice ==
  /\ [](\A f \in FetchIds :
          /\ (fetches[f].provider = "crypto" /\ fetches[f].pc = "markets") =>
               \A res \in MarketsResponses(fetches[f].ticker) :
                 LacksMarketPrice(fetches[f].ticker, res)
                 => MarketsOutcome(fetches[f].ticker, res).exit = "absent"
          /\ (fetches[f].provider = "coin" /\ fetches[f].pc = "price") =>
               \A res \in SimplePriceResponses :
                 LacksSimplePrice(res)
                 => SimplePriceOutcome(fetches[f].ticker, res).exit = "absent")
  /\ [](\A f \in FetchIds :
          (fetches[f].provider \in CryptoProviders /\ fetches[f].exit = "record")
          => /\ fetches[f].result.price_php.t = "number"
             /\ fetches[f].result.price_php.v # 0)
  /\ [](\A q \in CryptoProviders : \A k \in DOMAIN PRICE_CACHE[q] :
          /\ PRICE_CACHE[q][k].price_php.t = "number"
          /\ PRICE_CACHE[q][k].price_php.v # 0)
  /\ [][\A f \in FetchIds :
          (fetches[f].provider \in CryptoProviders /\ SettlesWithout(f))
          => PRICE_CACHE' = PRICE_CACHE]_vars

\* C12: in the equity fetcher a text next to the "Last Traded Price" label
\* that is no decimal number gives absent: no equity record, returned or
\* cached, has the price NaN.
C12_UnparsableAbsent ==
  /\ \A f \in FetchIds :
       (fetches[f].provider = "pse" /\ fetches[f].exit = "record")
       => fetches[f].result.price_php.t # "NaN"
  /\ \A k \in DOMAIN PRICE_CACHE["pse"] : PRICE_CACHE["pse"][k].price_php.t # "NaN"

\* C13: every entry of every price cache holds a record whose price is
\* neither null nor undefined.
C13_CachedPriceDefined ==
  \A q \in Providers : \A k \in DOMAIN PRICE_CACHE[q] :
    /\ IsPriceResponse(PRICE_CACHE[q][k])
    /\ ~NoPrice(PRICE_CACHE[q][k].price_php)

\* The settled fetches of provider p for `symbol` that produced no record.
FailedFor(p, symbol) ==
  {f \in FetchIds : /\ Settled(f) /\ fetches[f].exit # "record"
                    /\ fetches[f].provider = p
                    /\ SameTicker(fetches[f].ticker, symbol)}

C14_FailureStep ==
  /\ \A f \in FetchIds :
       SettlesWithout(f) =>
         /\ PRICE_CACHE' = PRICE_CACHE
         /\ ~Has(PENDING_REQUESTS'[fetches[f].provider], fetches[f].ticker)
  /\ ( /\ IsCallStep /\ NewCall.provider \in Providers
       /\ FailedFor(NewCall.provider, NewCall.symbol) # {}
       /\ RunningFor(NewCall.provider, NewCall.symbol) = {}
       /\ \A k \in EntriesFor(NewCall.provider, NewCall.symbol) :
            AgeOf(PRICE_CACHE[NewCall.provider][k]) >= CACHE_TTL_MS )
     => /\ NewCall.kind = "started"
        /\ NewCall.fetch = Len(fetches) + 1
        /\ fetches'[NewCall.fetch].pc # "settled"

\* C14: price failures are not cached.  A fetch that settles without a
\* record writes nothing to the price cache and leaves no in-flight entry
\* for its key; the next call for the ticker (no fresh entry, nothing in
\* flight) starts a new fetch, and the caller of a fetch that produced a
\* record receives that record.
C14_NoNegativeCaching ==
  /\ [](\A i \in CallIds :
          (calls[i].done /\ calls[i].fetch # 0 /\ fetches[calls[i].fetch].exit = "record")
          => /\ IsPriceResponse(calls[i].result)
             /\ calls[i].result = fetches[calls[i].fetch].result)
  /\ [][C14_FailureStep]_vars

\* A fetch ended absent; the next call for the same ticker started a second
\* fetch, which produced a record, and the caller has received it.
C14_Witness ==
  \E f, g \in FetchIds : \E i \in CallIds :
    /\ f < g /\ fetches[f].provider = fetches[g].provider
    /\ fetches[f].ticker = fetches[g].ticker
    /\ Settled(f) /\ fetches[f].exit = "absent"
    /\ Succeeded(g)
    /\ calls[i].fetch = g /\ calls[i].kind = "started" /\ calls[i].done
    /\ IsPriceResponse(calls[i].result)

\* The identifier mapping of a fetcher that resolves identifiers.
Resolvers == {"pse", "coin"}
IdMap(p) == IF p = "pse" THEN COMPANY_ID_CACHE ELSE ID_MAP_CACHE
IdMaps == <<COMPANY_ID_CACHE, ID_MAP_CACHE>>

\* The resolver of fetch f returns in this step.
ResolvesIn(f) == fetches[f].pc = "search" /\ fetches'[f].pc = "resolved"

C15_ResolveStep ==
  /\ \A f \in FetchIds :
       (ResolvesIn(f) /\ ~Truthy(fetches'[f].val)) =>
         /\ fetches'[f].val = Null
         /\ IdMaps' = IdMaps
  /\ ( /\ IsCallStep /\ NewCall.provider \in Resolvers /\ NewCall.kind = "started"
       /\ ~Truthy(Get(IdMap(NewCall.provider), trim(toUpperCase(NewCall.symbol)))) )
     => /\ fetches'[NewCall.fetch].pc = "search"
        /\ fetches'[NewCall.fetch].nSearch = 1

\* C15: the resolver caches no negative result.  For every response a
\* pending search can receive, a failed request or a list without an exact
\* match gives absent and stores nothing; a resolution that returns absent
\* leaves the identifier mappings unchanged; a later fetch for a ticker
\* that has no identifier sends a new search.
C15_NoNegativeIds ==
  /\ [](\A f \in FetchIds :
          /\ (fetches[f].provider = "pse" /\ fetches[f].pc = "search") =>
               \A res \in SearchResponses(fetches[f].ticker) :
                 LET got == getCompanyId(fetches[f].ticker, res) IN
                 /\ Unreadable(res) => got.value = Null
                 /\ ~Truthy(got.value) => (got.value = Null /\ ~got.store)
          /\ (fetches[f].provider = "coin" /\ fetches[f].pc = "search") =>
               \A res \in CoinSearchResponses(fetches[f].ticker) :
                 LET got == getCoinId(fetches[f].ticker, res) IN
                 /\ Unreadable(res) => got.value = Null
                 /\ ~Truthy(got.value) => (got.value = Null /\ ~got.store))
  /\ [](\A p \in Resolvers : \A k \in DOMAIN IdMap(p) : Truthy(IdMap(p)[k]))
  /\ [][C15_ResolveStep]_vars

\* A fetch ended absent because its search gave no identifier; a later fetch
\* for the same ticker sent a new search, which resolved the identifier.
C15_Witness ==
  \E f, g \in FetchIds :
    /\ f < g /\ fetches[f].provider = fetches[g].provider
    /\ fetches[f].provider \in Resolvers
    /\ fetches[f].ticker = fetches[g].ticker
    /\ Settled(f) /\ fetches[f].nSearch = 1 /\ fetches[f].nPrice = 0
    /\ fetches[g].nSearch = 1 /\ fetches[g].nPrice = 1
    /\ Has(IdMap(fetches[g].provider), fetches[g].ticker)

\* A fetch starts in this step with the identifier already stored.
C16_ResolveStep ==
  /\ \A p \in Resolvers : \A k \in DOMAIN IdMap(p) :
       /\ k \in DOMAIN IdMap(p)'
       /\ IdMap(p)'[k] = IdMap(p)[k]
  /\ ( /\ IsCallStep /\ NewCall.provider \in Resolvers /\ NewCall.kind = "started"
       /\ Has(IdMap(NewCall.provider), trim(toUpperCase(NewCall.symbol))) )
     => /\ fetches'[NewCall.fetch].pc = "resolved"
        /\ fetches'[NewCall.fetch].nSearch = 0
        /\ fetches'[NewCall.fetch].val
             = IdMap(NewCall.provider)[trim(toUpperCase(NewCall.symbol))]

\* C16: an identifier, once stored, stays: no step removes or changes an
\* entry of an identifier mapping, and every later fetch for the ticker, at
\* whatever time, takes the stored identifier and sends no search; a fetch
\* never sends more than one search.
C16_IdsStay ==
  /\ [](\A f \in FetchIds : fetches[f].nSearch <= 1)
  /\ [][C16_ResolveStep]_vars

\* An identifier stored by one fetch was used, a full TTL later, by a second
\* fetch that sent no search and went on to its price request.
C16_Witness ==
  \E f, g \in FetchIds :
    /\ f < g /\ fetches[f].provider = fetches[g].provider
    /\ fetches[f].provider \in Resolvers
    /\ fetches[f].ticker = fetches[g].ticker
    /\ fetches[f].nSearch = 1
    /\ fetches[g].nSearch = 0 /\ fetches[g].nPrice = 1
    /\ now >= CACHE_TTL_MS

\* The settled fetches of provider p for `symbol` whose last response was 429.
LimitedFor(p, symbol) ==
  {f \in FailedFor(p, symbol) : fetches[f].rateLimited}

C17_LimitedStep ==
  /\ \A f \in FetchIds :
       (Running(f) /\ fetches'[f].pc = "settled" /\ fetches'[f].rateLimited) =>
         /\ fetches'[f].exit # "record" /\ fetches'[f].result = Null
         /\ ~Has(PENDING_REQUESTS'[fetches[f].provider], fetches[f].ticker)
         /\ \A g \in FetchIds \ {f} : fetches'[g] = fetches[g]
         /\ <<now, PRICE_CACHE, COMPANY_ID_CACHE, ID_MAP_CACHE, calls>>'
              = <<now, PRICE_CACHE, COMPANY_ID_CACHE, ID_MAP_CACHE, calls>>
         /\ \A q \in Providers :
              OtherEntries(PENDING_REQUESTS[q], fetches[f].ticker)'
                = OtherEntries(PENDING_REQUESTS[q], fetches[f].ticker)
  /\ ( /\ IsCallStep /\ NewCall.provider \in Providers
       /\ LimitedFor(NewCall.provider, NewCall.symbol) # {}
       /\ RunningFor(NewCall.provider, NewCall.symbol) = {}
       /\ \A k \in EntriesFor(NewCall.provider, NewCall.symbol) :
            AgeOf(PRICE_CACHE[NewCall.provider][k]) >= CACHE_TTL_MS )
     => /\ NewCall.kind = "started"
        /\ \/ fetches'[NewCall.fetch].nSearch + fetches'[NewCall.fetch].nPrice = 1
           \/ fetches'[NewCall.fetch].pc = "resolved"

\* C17: a 429 response is a failure like any other.  For every body it may
\* carry, each request of each fetcher gives the outcome a rejected fetch
\* gives (absent, nothing stored); a fetch whose last response was 429
\* settles absent, with its in-flight entry removed and no other variable
\* changed (there is no cooldown state); the next call for the ticker, at
\* the same instant too, starts a fetch that sends a request.
C17_RateLimitAbsent ==
  /\ [](\A f \in FetchIds :
          /\ (fetches[f].provider = "crypto" /\ fetches[f].pc = "markets") =>
               \A b \in MarketsBodies(fetches[f].ticker) :
                 LET out == MarketsOutcome(fetches[f].ticker, Response(429, b)) IN
                 /\ out.exit # "record"
                 /\ out.value = MarketsOutcome(fetches[f].ticker, NetworkError).value
                 /\ out = MarketsOutcome(fetches[f].ticker, Response(500, b))
          /\ (fetches[f].provider = "pse" /\ fetches[f].pc = "search") =>
               \A b \in SearchBodies(fetches[f].ticker) :
                 getCompanyId(fetches[f].ticker, Response(429, b))
                   = getCompanyId(fetches[f].ticker, NetworkError)
          /\ (fetches[f].provider = "pse" /\ fetches[f].pc = "document") =>
               \A b \in DocumentBodies :
                 getLastTradedPrice(Response(429, b)) = getLastTradedPrice(NetworkError))
  /\ [](\A f \in FetchIds :
          (Settled(f) /\ fetches[f].rateLimited)
          => (fetches[f].exit # "record" /\ fetches[f].result = Null))
  /\ [][C17_LimitedStep]_vars

\* A fetch was answered 429 and settled absent; with no time passed, the
\* next call for the ticker started a second fetch, which has sent its
\* request.
C17_Witness ==
  \E f, g \in FetchIds :
    /\ f < g /\ fetches[f].provider = fetches[g].provider
    /\ fetches[f].ticker = fetches[g].ticker
    /\ Settled(f) /\ fetches[f].rateLimited /\ fetches[f].result = Null
    /\ fetches[g].nSearch + fetches[g].nPrice >= 1
    /\ now = 0

\* The callers of fetch f.
CallersOf(f) == {i \in CallIds : calls[i].fetch = f}

\* A caller stops waiting in this step.
AbandonsIn(i) == ~calls[i].done /\ calls'[i].done /\ calls'[i].result = Abandoned

C18_CallerStep ==
  /\ \A i \in CallIds :
       AbandonsIn(i) =>
         <<now, PRICE_CACHE, PENDING_REQUESTS, COMPANY_ID_CACHE, ID_MAP_CACHE, fetches>>'
           = <<now, PRICE_CACHE, PENDING_REQUESTS, COMPANY_ID_CACHE, ID_MAP_CACHE, fetches>>
  /\ \A f \in FetchIds :
       (Running(f) /\ fetches'[f].pc = "settled" /\ fetches'[f].exit = "record") =>
         Get(PRICE_CACHE'[fetches[f].provider],
             CacheKey(fetches[f].provider, fetches[f].ticker)) = fetches'[f].result
  /\ ( /\ IsCallStep /\ NewCall.provider \in Providers
       /\ \E k \in EntriesFor(NewCall.provider, NewCall.symbol) :
            AgeOf(PRICE_CACHE[NewCall.provider][k]) < CACHE_TTL_MS )
     => NewCall.kind = "hit"

\* C18: a caller that stops waiting cancels nothing.  Its step changes no
\* fetch, no in-flight entry and no cache; a running fetch keeps its
\* in-flight entry and can take its next step however many of its callers
\* still wait (a response is only held back while a microtask is due); a
\* fetch that produces a record writes it to the cache, and a call within
\* TTL is a hit.
C18_NoCancellation ==
  /\ [](\A f \in FetchIds :
          Running(f) =>
            /\ Get(PENDING_REQUESTS[fetches[f].provider], fetches[f].ticker) = Promise(f)
            /\ (MicrotaskPending \/ ENABLED Progress(f)))
  /\ [][C18_CallerStep]_vars

\* Every caller of a fetch stopped waiting before it settled; the fetch
\* went on, produced a record and cached it, and a later call got that
\* record as a fresh hit.
C18_Witness ==
  \E f \in FetchIds : \E j \in CallIds :
    /\ Succeeded(f)
    /\ CallersOf(f) # {}
    /\ \A i \in CallersOf(f) : calls[i].result = Abandoned
    /\ calls[j].kind = "hit" /\ calls[j].result = fetches[f].result


\* The step is the merge of a batch: Promise.all has resolved and setPrices
\* runs over the results.
IsMergeStep == refresh.active /\ ~refresh'.active
SlotIds == 1..Len(refresh.slots)

\* The callback of asset k returns a price record: its fetch succeeded.
Priced(k) == IsPriceResponse(refresh.slots[k].res)

\* Every callback that has resumed holds what its own call received, and
\* only a call that has finished resumes its callback.
OwnOutcome ==
  refresh.active =>
    \A k \in SlotIds :
      /\ refresh.slots[k].phase # "price" =>
           /\ calls[refresh.slots[k].call].done
           /\ refresh.slots[k].res = calls[refresh.slots[k].call].result
      /\ calls[refresh.slots[k].call].type = refresh.list[k].type
      /\ calls[refresh.slots[k].call].symbol = refresh.list[k].ticker

\* C19 as stated: in a batch refresh every asset whose fetch succeeded is
\* in the map with its own record after the merge, and an asset whose
\* fetch failed or is unpriced leaves the map as it was.
C19_OwnRecordStep ==
  IsMergeStep =>
    /\ \A k \in SlotIds : Priced(k) =>
         Get(prices', refresh.slots[k].res.asset) = refresh.slots[k].res
    /\ \A key \in DOMAIN prices' :
         (~Has(prices, key) \/ prices'[key] # prices[key]) =>
           \E k \in SlotIds : Priced(k) /\ refresh.slots[k].res.asset = key

C19_MergeStep ==
  IsMergeStep =>
    /\ \A k \in SlotIds : Truthy(refresh.slots[k].res) =>
         /\ Has(prices', KeyOf(refresh.slots[k].res))
         /\ \/ prices'[KeyOf(refresh.slots[k].res)] = refresh.slots[k].res
            \/ \E j \in SlotIds :
                 /\ j > k /\ Truthy(refresh.slots[j].res)
                 /\ KeyOf(refresh.slots[j].res) = KeyOf(refresh.slots[k].res)
                 /\ prices'[KeyOf(refresh.slots[k].res)] = refresh.slots[j].res
    /\ \A key \in DOMAIN prices : Has(prices', key)
    /\ \A key \in DOMAIN prices' :
         (~Has(prices, key) \/ prices'[key] # prices[key]) =>
           \E k \in SlotIds :
             /\ Truthy(refresh.slots[k].res) /\ KeyOf(refresh.slots[k].res) = key
             /\ prices'[key] = refresh.slots[k].res

PseFetches == { f \in FetchIds : fetches[f].provider = "pse" }
Resolved(f) == fetches[f].pc = "resolved"
HasId(f) == Truthy(fetches[f].val) /\ fetches[f].val.t = "string"

\* A step of the equity fetch f: after a resolution without identifier it
\* returns null and sends nothing; the document request is sent only
\* after a resolution with an identifier, and carries that identifier.
C20_FetchStep(f) ==
  /\ (Resolved(f) /\ ~HasId(f) /\ fetches'[f] # fetches[f]) =>
       /\ fetches'[f].pc = "settled" /\ fetches'[f].result = Null
       /\ fetches'[f].nPrice = 0
  /\ (Resolved(f) /\ HasId(f) /\ fetches'[f] # fetches[f]) =>
       /\ fetches'[f].pc = "document" /\ fetches'[f].nPrice = 1
       /\ fetches'[f].val = fetches[f].val
  /\ fetches'[f].nPrice # fetches[f].nPrice => (Resolved(f) /\ HasId(f))

\* While the document request is out it carries the identifier the
\* resolution stored for the ticker; before the resolution has ended no
\* document request has been sent.
C20_DocumentState ==
  \A f \in PseFetches :
    /\ fetches[f].pc \in {"search", "resolved"} => fetches[f].nPrice = 0
    /\ fetches[f].pc = "document" =>
         /\ Has(COMPANY_ID_CACHE, fetches[f].ticker)
         /\ fetches[f].val = COMPANY_ID_CACHE[fetches[f].ticker]
    /\ fetches[f].nPrice <= 1

\* C20: in the equity fetcher an absent identifier ends the fetch with
\* null and without a document request; the document request is sent only
\* after a resolution that gave an identifier, and uses that identifier.
C20_DocumentAfterResolution ==
  /\ []C20_DocumentState
  /\ [][\A f \in PseFetches : C20_FetchStep(f)]_vars

\* One equity fetch has ended null after a search that found no company,
\* with no document request sent, and a later one for the ticker has its
\* document request out.
C20_Witness ==
  \E f \in PseFetches : \E g \in PseFetches :
    /\ fetches[f].pc = "settled" /\ fetches[f].exit = "absent"
    /\ fetches[f].nSearch = 1 /\ fetches[f].nPrice = 0
    /\ fetches[g].pc = "document" /\ fetches[g].nPrice = 1
    /\ fetches[g].ticker = fetches[f].ticker

\* The equity fetch f received a document with the label and no value.
EmptyValued(f) == fetches[f].provider = "pse" /\ fetches[f].emptyValue

\* After such a document the extraction gave null, and the fetch, once
\* settled, returned null and no record.
C21_EmptyValueState ==
  \A f \in FetchIds : EmptyValued(f) =>
    /\ fetches[f].pc \in {"extracted", "settled"}
    /\ fetches[f].pc = "extracted" => fetches[f].val = Null
    /\ fetches[f].pc = "settled" =>
         /\ fetches[f].exit = "absent" /\ fetches[f].result = Null

\* The steps of such a fetch write nothing to the price cache.
C21_EmptyValueStep ==
  \A f \in FetchIds :
    (EmptyValued(f)' /\ fetches'[f] # fetches[f]) => PRICE_CACHE' = PRICE_CACHE

\* C21: in the equity fetcher a document that has the "Last Traded Price"
\* label with the value next to it missing or empty after trimming makes
\* the fetch return absent and write nothing to the cache; no record, and
\* so no record with price zero, comes of it.
C21_EmptyValueAbsent == []C21_EmptyValueState /\ [][C21_EmptyValueStep]_vars

\* An equity fetch has settled absent after a document with the label and
\* no value, and the cache has no entry for its ticker.
C21_Witness ==
  \E f \in FetchIds :
    /\ EmptyValued(f) /\ fetches[f].pc = "settled"
    /\ fetches[f].exit = "absent" /\ fetches[f].nPrice = 1
    /\ ~Has(PRICE_CACHE["pse"], fetches[f].ticker)

\* The step settles the fetch f.
SettlesIn(f) == fetches[f].pc # "settled" /\ fetches'[f].pc = "settled"

\* No step removes a cache entry, and an entry changes only in the step
\* in which a fetch for its key returns a record, to that record; a fetch
\* that returns a record always leaves it as the entry of its key; a fetch
\* that returns none returns null and leaves the cache as it was.
C22_CacheStep ==
  /\ \A q \in Providers : \A k \in DOMAIN PRICE_CACHE[q] :
       /\ Has(PRICE_CACHE'[q], k)
       /\ PRICE_CACHE'[q][k] # PRICE_CACHE[q][k] =>
            \E f \in FetchIds :
              /\ SettlesIn(f) /\ fetches'[f].exit = "record"
              /\ fetches[f].provider = q /\ CacheKey(q, fetches[f].ticker) = k
              /\ PRICE_CACHE'[q][k] = fetches'[f].result
  /\ \A f \in FetchIds :
       (SettlesIn(f) /\ fetches'[f].exit = "record") =>
         /\ Has(PRICE_CACHE'[fetches[f].provider],
                CacheKey(fetches[f].provider, fetches[f].ticker))
         /\ PRICE_CACHE'[fetches[f].provider]
                        [CacheKey(fetches[f].provider, fetches[f].ticker)]
              = fetches'[f].result
  /\ \A f \in FetchIds :
       (SettlesIn(f) /\ fetches'[f].exit # "record") =>
         /\ fetches'[f].result = Null
         /\ PRICE_CACHE' = PRICE_CACHE

\* A caller of a fetch that returned no record received null, whatever the
\* cache holds for the key.
C22_FailedCallers ==
  \A i \in CallIds :
    (calls[i].done /\ calls[i].fetch # 0 /\ fetches[calls[i].fetch].exit # "record")
      => calls[i].result = Null

\* C22: a cache entry is never deleted; a stale entry stays until a later
\* successful fetch for its key overwrites it, which such a fetch always
\* does; when the refetch of a stale key fails the call returns absent,
\* not the stale record, and the entry is left unchanged.
C22_StaleKept == []C22_FailedCallers /\ [][C22_CacheStep]_vars

\* A refetch begun on a stale entry has failed: its caller received null
\* and the stale entry, written before the refetch began, is still there.
C22_Witness ==
  \E i \in CallIds : \E f \in FetchIds :
    /\ calls[i].kind = "started" /\ calls[i].done /\ calls[i].result = Null
    /\ fetches[calls[i].fetch].exit # "record" /\ calls[i].fetch > f
    /\ Succeeded(f) /\ fetches[f].provider = calls[i].provider
    /\ fetches[f].ticker = fetches[calls[i].fetch].ticker
    /\ Has(PRICE_CACHE[fetches[f].provider],
           CacheKey(fetches[f].provider, fetches[f].ticker))
    /\ PRICE_CACHE[fetches[f].provider]
                  [CacheKey(fetches[f].provider, fetches[f].ticker)] = RecordOf(f)
    /\ AgeOf(RecordOf(f)) >= CACHE_TTL_MS

\* The step hands call i the outcome of the fetch it waited for.
Receives(i) == ~calls[i].done /\ calls'[i].done /\ calls[i].fetch # 0

\* A caller that receives a record from a fetch finds, at that moment,
\* that record in the cache under the key of the fetch and no in-flight
\* entry for the fetch.
C23_DeliveryStep ==
  \A i \in CallIds :
    (Receives(i) /\ IsPriceResponse(calls'[i].result)) =>
      LET f == calls[i].fetch
          q == fetches[f].provider
      IN /\ calls'[i].result = fetches[f].result
         /\ Settled(f)
         /\ Has(PRICE_CACHE[q], CacheKey(q, fetches[f].ticker))
         /\ PRICE_CACHE[q][CacheKey(q, fetches[f].ticker)] = calls'[i].result
         /\ Get(PENDING_REQUESTS[q], fetches[f].ticker) # Promise(f)

\* The cache write and the removal of the in-flight entry are done when
\* the fetch settles, and the fetch settles before anyone is handed its
\* outcome.
C23_SettleStep ==
  \A f \in FetchIds :
    (SettlesIn(f) /\ fetches'[f].exit = "record") =>
      /\ PRICE_CACHE'[fetches[f].provider]
                     [CacheKey(fetches[f].provider, fetches[f].ticker)]
           = fetches'[f].result
      /\ ~Has(PENDING_REQUESTS'[fetches[f].provider], fetches[f].ticker)
      /\ \A i \in CallIds : calls[i].fetch = f => (~calls[i].done /\ ~calls'[i].done)

\* C23: the steps of a successful fetch are ordered: cache write, removal
\* of the in-flight handle, delivery; when a caller (initiator or joined)
\* receives a record from a fetch the cache holds that record for the key
\* and no in-flight handle exists for that fetch.
C23_WriteClearDeliver == [][C23_DeliveryStep /\ C23_SettleStep]_vars

\* The initiator and a joined caller have both received the record of one
\* fetch.
C23_Witness ==
  \E i, j \in CallIds :
    /\ i # j /\ calls[i].fetch = calls[j].fetch /\ calls[i].fetch # 0
    /\ calls[i].kind = "started" /\ calls[j].kind = "joined"
    /\ calls[i].done /\ calls[j].done
    /\ IsPriceResponse(calls[i].result) /\ calls[j].result = calls[i].result

\* The fetch f is suspended on a network operation.
OnNetwork(f) == fetches[f].pc \in {"search", "document", "markets", "price"}

\* While the network operation of f has not completed nothing else moves
\* f: its in-flight entry stays, the callers waiting for it stay waiting,
\* and every call for its key that finds no fresh entry joins it and
\* waits; a call for another key or another provider does not join it.
C24_HungStep ==
  \A f \in FetchIds :
    OnNetwork(f) =>
      /\ fetches'[f].pc = fetches[f].pc =>
           /\ fetches'[f] = fetches[f]
           /\ Get(PENDING_REQUESTS'[fetches[f].provider], fetches[f].ticker) = Promise(f)
           /\ \A i \in CallIds : calls[i].fetch = f => (~calls[i].done /\ ~calls'[i].done)
      /\ (IsCallStep /\ NewCall.provider = fetches[f].provider
            /\ Ticker(NewCall.provider, NewCall.symbol) = fetches[f].ticker
            /\ NewCall.kind # "hit")
           => (NewCall.kind = "joined" /\ NewCall.fetch = f /\ ~NewCall.done)
      /\ (IsCallStep /\ NewCall.fetch = f /\ Len(fetches') = Len(fetches))
           => /\ NewCall.provider = fetches[f].provider
              /\ Ticker(NewCall.provider, NewCall.symbol) = fetches[f].ticker

\* C24: no timeout releases a single-flight slot: as long as the network
\* operation of a fetch has not completed its handle remains, however
\* much time passes, and every later call for the key without a fresh
\* cache entry joins it and receives nothing; calls for other keys and
\* for the other provider are not affected.
C24_NoTimeout == [][C24_HungStep]_vars

\* A fetch has been waiting on the network for as long as the clock of
\* the model runs, still registered, its caller still waiting, while a
\* call made to the other provider has come back with a record.
C24_Witness ==
  \E f \in FetchIds : \E i, j \in CallIds :
    /\ OnNetwork(f) /\ TickIndex(now) = MaxTicks
    /\ Get(PENDING_REQUESTS[fetches[f].provider], fetches[f].ticker) = Promise(f)
    /\ calls[i].fetch = f /\ ~calls[i].done
    /\ j > i /\ calls[j].provider # calls[i].provider /\ calls[j].kind = "started"
    /\ calls[j].done /\ IsPriceResponse(calls[j].result)

\* The responses of the markets query that carry a non-empty list.
ListResponses(ticker) ==
  { res \in MarketsResponses(ticker) :
      res.t = "response" /\ res.status = 200 /\ res.body.t = "array"
        /\ res.body.items # <<>> }

\* The positions of the elements whose symbol equals the ticker up to
\* letter case, and the element the rule of the claim selects.
Matches(items, ticker) ==
  { n \in 1..Len(items) :
      items[n].symbol.t = "string" /\ toLowerCase(items[n].symbol.s) = ticker }
Preferred(items, ticker) ==
  IF Matches(items, ticker) = {} THEN items[1]
  ELSE items[CHOOSE n \in Matches(items, ticker) :
               \A m \in Matches(items, ticker) : n <= m]

\* Every element the scan looks at has a symbol that is a string: all
\* elements up to the first match, or all elements when none matches.
Scannable(items, ticker) ==
  \A n \in 1..Len(items) :
    (\A m \in Matches(items, ticker) : n <= m) => items[n].symbol.t = "string"

\* The outcome is the one the selected element gives: absent when its
\* price is null or undefined, else a record with its price and with the
\* requested ticker in upper case.
FromPreferred(out, items, ticker) ==
  LET price == Preferred(items, ticker).current_price IN
  IF price.t \in {"null", "undefined"} THEN out.exit = "absent"
  ELSE /\ out.exit = "record"
       /\ out.value.price_php = price
       /\ out.value.asset = toUpperCase(ticker)

\* The crypto fetches waiting for the markets query.
OnMarkets == { f \in FetchIds : fetches[f].provider = "crypto" /\ fetches[f].pc = "markets" }

\* C25 as stated: whatever non-empty list a waiting crypto fetch receives,
\* the price is read from the element whose symbol equals the ticker
\* case-insensitively when there is one and else from the first element,
\* and the record carries the requested ticker in upper case.
C25_PreferredElement ==
  \A f \in OnMarkets : \A res \in ListResponses(fetches[f].ticker) :
    FromPreferred(MarketsOutcome(fetches[f].ticker, res), res.body.items, fetches[f].ticker)

\* What the code does keep: the rule holds for every non-empty list in
\* which each element the scan looks at has a string symbol, a list with
\* an element without one before the match ends the fetch absent, and a
\* crypto fetch that returned a record returned one with its ticker in
\* upper case.
C25_PreferredWhenScannable ==
  /\ \A f \in OnMarkets : \A res \in ListResponses(fetches[f].ticker) :
       IF Scannable(res.body.items, fetches[f].ticker)
       THEN FromPreferred(MarketsOutcome(fetches[f].ticker, res), res.body.items,
                          fetches[f].ticker)
       ELSE MarketsOutcome(fetches[f].ticker, res).value = Null
  /\ \A f \in FetchIds :
       (fetches[f].provider = "crypto" /\ Succeeded(f)) =>
         /\ RecordOf(f).asset = toUpperCase(fetches[f].ticker)
         /\ \E res \in ListResponses(fetches[f].ticker) :
              RecordOf(f).price_php = Preferred(res.body.items, fetches[f].ticker).current_price

\* A crypto fetch has returned a record read from the first element of a
\* list without a match: the price is that element's, the ticker is the
\* requested one in upper case.
C25_FallbackUsed ==
  \E f \in FetchIds :
    /\ fetches[f].provider = "crypto" /\ Succeeded(f)
    /\ RecordOf(f).price_php = Num(700)
    /\ RecordOf(f).asset = toUpperCase(fetches[f].ticker)
    /\ Has(PRICE_CACHE["crypto"], RecordOf(f).asset)

\* What the resolver of provider p does with the response res of its
\* search, the candidates the response carries, and a candidate's
\* internal identifier.
Resolve(p, ticker, res) ==
  IF p = "pse" THEN getCompanyId(ticker, res) ELSE getCoinId(ticker, res)
SearchResponsesOf(p, ticker) ==
  IF p = "pse" THEN SearchResponses(ticker) ELSE CoinSearchResponses(ticker)
Candidates(p, res) ==
  IF res.t # "response" \/ res.status # 200 \/ res.body.t = "malformed" THEN <<>>
  ELSE IF p = "pse" THEN (IF res.body.t = "array" THEN res.body.items ELSE <<>>)
  ELSE IF res.body.coins.t = "array" THEN res.body.coins.items ELSE <<>>
IdOfCandidate(p, item) == IF p = "pse" THEN item.cmpyId ELSE item.id

\* The candidates whose symbol is the ticker up to letter case and outer
\* blanks and that carry an identifier.
ExactMatches(p, items, ticker) ==
  { n \in 1..Len(items) :
      /\ items[n].symbol.t = "string" /\ SameTicker(items[n].symbol.s, ticker)
      /\ Truthy(IdOfCandidate(p, items[n])) }

\* The fetches waiting for the search of their resolver.
OnSearch == { f \in FetchIds : fetches[f].provider \in Resolvers /\ fetches[f].pc = "search" }

\* C26: on a mapping miss the resolver sends one search, and whatever the
\* search answers: when a candidate's symbol equals the ticker exactly
\* but case-insensitively its identifier is stored under the normalized
\* ticker and returned; when no candidate does, nothing is stored, so a
\* candidate that matches only partially is never stored.
C26_ExactMatchStored ==
  \A f \in OnSearch :
    /\ fetches[f].nSearch = 1
    /\ ~Has(IdMap(fetches[f].provider), fetches[f].ticker)
    /\ \A res \in SearchResponsesOf(fetches[f].provider, fetches[f].ticker) :
         LET q     == fetches[f].provider
             items == Candidates(q, res)
             hits  == ExactMatches(q, items, fetches[f].ticker)
             got   == Resolve(q, fetches[f].ticker, res)
         IN IF hits = {} THEN ~got.store
            ELSE /\ got.store
                 /\ \E n \in hits : got.value = IdOfCandidate(q, items[n])

\* What both resolvers do keep: an identifier is stored only when it is
\* the identifier of a candidate whose symbol is the ticker up to letter
\* case, and it is then the value returned.
C26_OnlyExactStored ==
  \A f \in OnSearch :
    \A res \in SearchResponsesOf(fetches[f].provider, fetches[f].ticker) :
      LET q     == fetches[f].provider
          items == Candidates(q, res)
          got   == Resolve(q, fetches[f].ticker, res)
      IN got.store =>
           \E n \in ExactMatches(q, items, fetches[f].ticker) :
             got.value = IdOfCandidate(q, items[n])

\* The cache of provider q holds an entry for ticker k younger than TTL.
FreshEntry(q, k) ==
  /\ Has(PRICE_CACHE[q], CacheKey(q, k))
  /\ AgeOf(PRICE_CACHE[q][CacheKey(q, k)]) < CACHE_TTL_MS

\* No in-flight entry stands beside a fresh cache entry for its key, and
\* every in-flight entry is a fetch that has not settled.
C27_NoFreshWhilePending ==
  \A q \in Providers : \A k \in DOMAIN PENDING_REQUESTS[q] :
    /\ ~FreshEntry(q, k)
    /\ PENDING_REQUESTS[q][k].t = "promise"
    /\ Running(PENDING_REQUESTS[q][k].f)

\* A fetch is started only on a missing or stale entry; the step in which
\* a fetch returns a record both writes the cache and removes the handle;
\* the clock does not go backwards.
C27_StartAndSettleStep ==
  /\ (IsCallStep /\ NewCall.kind = "started") =>
       ~FreshEntry(NewCall.provider, Ticker(NewCall.provider, NewCall.symbol))
  /\ \A f \in FetchIds :
       (Running(f) /\ fetches'[f].exit = "record") =>
         /\ fetches'[f].pc = "settled"
         /\ PRICE_CACHE'[fetches[f].provider]
                        [CacheKey(fetches[f].provider, fetches[f].ticker)]
              = fetches'[f].result
         /\ ~Has(PENDING_REQUESTS'[fetches[f].provider], fetches[f].ticker)
  /\ now' >= now

\* C27: in every reachable state an in-flight handle for a key exists
\* only while the cache holds no fresh entry for that key; a fetch starts
\* only on a missing or stale entry, and the cache write and the handle
\* removal of a successful fetch are one step.
C27_HandleOnlyWithoutFresh == []C27_NoFreshWhilePending /\ [][C27_StartAndSettleStep]_vars

\* A refetch is in flight for a key whose stale entry is still in the
\* cache.
C27_Witness ==
  \E q \in Providers : \E k \in DOMAIN PENDING_REQUESTS[q] :
    /\ Has(PRICE_CACHE[q], CacheKey(q, k))
    /\ AgeOf(PRICE_CACHE[q][CacheKey(q, k)]) >= CACHE_TTL_MS
    /\ Running(PENDING_REQUESTS[q][k].f)

\* A ticker in its normalized form: trimmed and in upper case.
Normalized(k) == k = trim(toUpperCase(k))

\* Every cache entry is a record stored under a normalized ticker, and the
\* ticker the record carries is the key it is stored under.
C28_KeysState ==
  \A q \in Providers : \A k \in DOMAIN PRICE_CACHE[q] :
    /\ Normalized(k)
    /\ IsPriceResponse(PRICE_CACHE[q][k])
    /\ PRICE_CACHE[q][k].asset = k

\* The cache changes only in the step in which a fetch returns a record,
\* and then only in the map of its provider under the key of its ticker,
\* to the record it returns.
C28_WriteStep ==
  PRICE_CACHE' # PRICE_CACHE =>
    \E f \in FetchIds :
      /\ SettlesIn(f) /\ fetches'[f].exit = "record"
      /\ SameTicker(CacheKey(fetches[f].provider, fetches[f].ticker), fetches[f].ticker)
      /\ PRICE_CACHE' = [PRICE_CACHE EXCEPT ![fetches[f].provider] =
           Put(@, CacheKey(fetches[f].provider, fetches[f].ticker), fetches'[f].result)]

\* C28: in every reachable state each price-cache entry is stored under
\* the normalized ticker and its record's ticker field equals its key; a
\* record is written only by the producer of a fetch for that key, and
\* nothing else writes to the cache.
C28_NormalizedKeys == []C28_KeysState /\ [][C28_WriteStep]_vars

\* A call with a ticker typed in lower case and with a blank has left its
\* record in the cache under the normalized ticker.
C28_Witness ==
  \E i \in CallIds :
    /\ calls[i].kind = "started" /\ calls[i].done /\ IsPriceResponse(calls[i].result)
    /\ ~Normalized(calls[i].symbol)
    /\ Has(PRICE_CACHE[calls[i].provider], trim(toUpperCase(calls[i].symbol)))
    /\ PRICE_CACHE[calls[i].provider][trim(toUpperCase(calls[i].symbol))].asset
         = trim(toUpperCase(calls[i].symbol))

\* The equity fetches whose search request is out.
Searching == { f \in PseFetches : fetches[f].pc = "search" }

\* At most one search per ticker is out, and it is out only while no
\* identifier is stored for the ticker.
C29_OneSearchState ==
  /\ \A f, g \in Searching : SameTicker(fetches[f].ticker, fetches[g].ticker) => f = g
  /\ \A f \in Searching : ~Has(COMPANY_ID_CACHE, fetches[f].ticker)

\* An identifier is written only under a ticker that has none, by the
\* search of a fetch for that ticker, one ticker at a step; a stored
\* identifier is never written again.
C29_WriteOnceStep ==
  /\ \A k \in DOMAIN COMPANY_ID_CACHE :
       Has(COMPANY_ID_CACHE', k) /\ COMPANY_ID_CACHE'[k] = COMPANY_ID_CACHE[k]
  /\ COMPANY_ID_CACHE' # COMPANY_ID_CACHE =>
       \E f \in Searching :
         /\ fetches'[f].pc = "resolved"
         /\ DOMAIN COMPANY_ID_CACHE' = DOMAIN COMPANY_ID_CACHE \cup {fetches[f].ticker}
         /\ COMPANY_ID_CACHE'[fetches[f].ticker] = fetches'[f].val

\* C29: the resolver runs only inside the single-flight producer, so in
\* the equity provider at most one search request per ticker is in
\* flight at any instant and an identifier entry is written at most once
\* per ticker: no interleaving of calls makes two resolutions for one
\* ticker race or overwrite a stored identifier.
C29_OneResolution == []C29_OneSearchState /\ [][C29_WriteOnceStep]_vars

\* Two calls for one ticker shared the one fetch whose search stored the
\* identifier.
C29_Witness ==
  \E i, j \in CallIds :
    /\ i < j /\ calls[i].provider = "pse" /\ calls[j].provider = "pse"
    /\ calls[i].kind = "started" /\ calls[j].kind = "joined"
    /\ calls[j].fetch = calls[i].fetch
    /\ fetches[calls[i].fetch].nSearch = 1
    /\ Has(COMPANY_ID_CACHE, fetches[calls[i].fetch].ticker)
    /\ Len(fetches) = 1

\* The step ends the add handler a with the result it received.
AddEnds(a) == ~adding[a].done /\ adding'[a].done
AddResult(a) == calls[adding[a].call].result

\* Every record stored in the price map stays, and is replaced only by
\* a price record that carries the ticker it is stored under.
OnlyRecordsChange ==
  \A key \in DOMAIN prices :
    /\ Has(prices', key)
    /\ prices'[key] # prices[key] =>
         (IsPriceResponse(prices'[key]) /\ prices'[key].asset = key)

\* A priced result replaces the entry under the record's ticker: the
\* result of an add at once, the results of a batch in list order, so
\* that of several for one ticker the last applied remains.
PricedReplaces ==
  /\ \A a \in 1..Len(adding) :
       AddEnds(a) =>
         IF IsPriceResponse(AddResult(a))
         THEN prices' = Put(prices, AddResult(a).asset, AddResult(a))
         ELSE prices' = prices
  /\ IsMergeStep =>
       \A k \in SlotIds : Priced(k) =>
         \/ Get(prices', refresh.slots[k].res.asset) = refresh.slots[k].res
         \/ \E j \in SlotIds :
              /\ j > k /\ Priced(j)
              /\ refresh.slots[j].res.asset = refresh.slots[k].res.asset
              /\ Get(prices', refresh.slots[k].res.asset) = refresh.slots[j].res

\* C30: in the merged price map of the application (batch refresh and add
\* form) a result that is no price record never removes or changes what
\* is stored, and a priced result replaces the entry stored under the
\* record's ticker; the map is keyed by ticker alone, so assets of two
\* types with one ticker share an entry and the result applied last wins.
C30_PriceMapFrame == [][OnlyRecordsChange /\ PricedReplaces]_vars

\* What does hold: a null result changes nothing, and every other result
\* is stored, by the add form under the upper-cased ticker of the form
\* and by the batch under the ticker the result carries.
C30_NullChangesNothing ==
  [][/\ \A a \in 1..Len(adding) :
          AddEnds(a) =>
            IF AddResult(a) = Null THEN prices' = prices
            ELSE prices' = Put(prices, adding[a].tickerUpper, AddResult(a))
     /\ IsMergeStep =>
          \A key \in DOMAIN prices' :
            (~Has(prices, key) \/ prices'[key] # prices[key]) =>
              \E k \in SlotIds : refresh.slots[k].res # Null /\ prices'[key] = refresh.slots[k].res
     /\ \A key \in DOMAIN prices : Has(prices', key)]_vars

\* Two adds under one ticker, of a Stock and of a Crypto asset, both came
\* back priced: the map holds one entry for the ticker, the later result.
C30_SharedEntry ==
  /\ Len(adding) = 2 /\ adding[1].done /\ adding[2].done
  /\ adding[1].tickerUpper = adding[2].tickerUpper
  /\ calls[adding[1].call].type # calls[adding[2].call].type
  /\ IsPriceResponse(calls[adding[1].call].result)
  /\ IsPriceResponse(calls[adding[2].call].result)
  /\ prices[adding[1].tickerUpper] = calls[adding[2].call].result
====
